---- MODULE Spec2Model ----
(***************************************************************************)
(* The durable job queue of the order middleware: the jobs table, the      *)
(* atomic claim (getDueJobs / claimDueJobs), the runner (runJobWithRetry), *)
(* the enqueue guards (create{Sync,Invoice,Ship}JobIfNotExists, ensureJob),*)
(* the operator endpoint POST /jobs/:id/retry, and the IMPORT_ORDERS       *)
(* bookkeeping row written by importOrdersFromFiles.                       *)
(*                                                                         *)
(* Every awaited database statement is one step.  A row selected FOR       *)
(* UPDATE stays locked until its transaction commits: other claims skip it *)
(* (SKIP LOCKED; knex's builder always has skipLocked, so the guarded call *)
(* is taken), plain UPDATE ... WHERE id = ? statements wait for the lock,  *)
(* plain SELECTs read the committed row.                                   *)
(***************************************************************************)
EXTENDS Integers, Sequences, FiniteSets, TLC

\* ---------------------------------------------------------------- bounds
MaxRequests == 2
MaxClaims == 2
MaxImports == 1
MaxLimit == 2
MaxTicks == 1
MaxSeedRows == 3
MaxRunTicks == 7
BatchSize == 3
BatchConcurrency == 2
SlotConcurrency == 2
MaxLoopJobs == 4
MaxFaultyJobs == 3
MaxPollRows == 2
MaxShutdownJobs == 2

\* ------------------------------------------------------ program constants
BackoffSeconds == 30
DefaultMaxAttempts == 5
RepositoryMaxAttempts == 3
ImportMaxAttempts == 1
JOBS_CONCURRENCY == 1

Workers == {"w1", "w2"}
Clients == {"c1", "c2"}
Orders == {1}

SYNC == "SYNC_ORDER_TO_MAGENTO"
INVOICE == "INVOICE_MAGENTO_ORDER"
SHIP == "SHIP_MAGENTO_ORDER"
IMPORT_JOB_TYPE == "IMPORT_ORDERS"
OrderJobTypes == {SYNC, INVOICE, SHIP}
\* The types the callers of this model enqueue; createShipJobIfNotExists is
\* createInvoiceJobIfNotExists with the other type string.
EnqueueTypes == {SYNC, INVOICE}

JobStatus == {"PENDING", "RUNNING", "RETRY", "FAILED", "DONE"}

NULL == "NULL"
NullTime == 0 - 1

\* The two versions of services/jobsService.ts; a deployment runs one.
Builds == {"linear", "exponential"}
\* The enqueue and claim implementations: services/jobsService.ts and
\* db/repositories/jobsRepository.ts.
Impls == {"service", "repository"}

VARIABLES
    build,  \* which jobsService version is deployed
    now,    \* the clock, in seconds
    jobs,   \* the jobs table: jobs[id] is the committed row with that id
    tx,     \* per worker: the open claim transaction
    queue,  \* per worker: claimed jobs not yet handed to runJobWithRetry
    active, \* per worker: jobs whose runJobWithRetry call is in progress
    op,     \* per client: the enqueue / retry request in progress
    imp,    \* the import run and its bookkeeping job
    issued, \* how many claims, requests and imports have been started
    orders, \* the orders table: what the workflow handlers persist per order
    remote, \* the remote shop: calls received, orders, invoices, shipments made
    rule,   \* the channel rule resolveChannelRule returns at this moment
    worker  \* the slot worker's process: isShuttingDown, activeJobsCount, shutdown

vars == <<build, now, jobs, tx, queue, active, op, imp, issued, orders, remote, rule, worker>>

\* ------------------------------------------------------------- helpers
Min(a, b) == IF a <= b THEN a ELSE b

RECURSIVE Pow2(_)
Pow2(n) == IF n <= 0 THEN 1 ELSE 2 * Pow2(n - 1)

JobIds == 1..Len(jobs)

\* ORDER BY id taken the wrong way round.
RECURSIVE SortDesc(_)
SortDesc(S) ==
    IF S = {} THEN <<>>
    ELSE LET m == CHOOSE x \in S : \A y \in S : x >= y
         IN <<m>> \o SortDesc(S \ {m})

\* Ascending sequence of the elements of a finite set of integers.
RECURSIVE SortAsc(_)
SortAsc(S) ==
    IF S = {} THEN <<>>
    ELSE LET m == CHOOSE x \in S : \A y \in S : x <= y
         IN <<m>> \o SortAsc(S \ {m})

Take(s, n) == SubSeq(s, 1, Min(n, Len(s)))

\* ------------------------------------------------------------ errors
\* What a handler can throw: an axios error with a response (status, and the
\* message of the response body in data, "" when the body has none), an axios
\* error without response (status 0), or a plain Error.
AxiosError(status, data) ==
    [axios |-> TRUE, status |-> status, data |-> data,
     message |-> IF status = 0 THEN "Network Error"
                 ELSE "Request failed with status code " \o ToString(status)]

PlainError(message) ==
    [axios |-> FALSE, status |-> 0, data |-> "", message |-> message]

ErrUnavailable == AxiosError(503, "")
ErrNotFound == AxiosError(404, "")
ErrMissingOrderId == PlainError("Job payload is missing order_id")
HandlerErrors == {ErrUnavailable, ErrNotFound}

\* The letters toLowerCase changes.
LowerCaseOf ==
    ("A" :> "a") @@ ("B" :> "b") @@ ("C" :> "c") @@ ("D" :> "d") @@ ("E" :> "e") @@
    ("F" :> "f") @@ ("G" :> "g") @@ ("H" :> "h") @@ ("I" :> "i") @@ ("J" :> "j") @@
    ("K" :> "k") @@ ("L" :> "l") @@ ("M" :> "m") @@ ("N" :> "n") @@ ("O" :> "o") @@
    ("P" :> "p") @@ ("Q" :> "q") @@ ("R" :> "r") @@ ("S" :> "s") @@ ("T" :> "t") @@
    ("U" :> "u") @@ ("V" :> "v") @@ ("W" :> "w") @@ ("X" :> "x") @@ ("Y" :> "y") @@
    ("Z" :> "z")

\* String.prototype.toLowerCase
RECURSIVE toLowerCase(_)
toLowerCase(str) ==
    IF str = "" THEN ""
    ELSE LET ch == SubSeq(str, 1, 1)
         IN (IF ch \in DOMAIN LowerCaseOf THEN LowerCaseOf[ch] ELSE ch)
              \o toLowerCase(SubSeq(str, 2, Len(str)))

\* message.includes(phrase)
Includes(message, phrase) ==
    \E i \in 1..(Len(message) - Len(phrase) + 1) :
        SubSeq(message, i, i + Len(phrase) - 1) = phrase

\* A phrase list that has lost the shipment phrase.
KnownRetriablesWithoutShipment(b) ==
    IF b = "linear"
    THEN {"deadlock found when trying to get lock", "serialization failure: 1213",
          "could not save source item"}
    ELSE {"deadlock found", "serialization failure", "lock wait timeout",
          "could not save source item"}

KnownRetriables(b) ==
    IF b = "linear"
    THEN {"deadlock found when trying to get lock", "serialization failure: 1213",
          "could not save source item", "the shipment couldn't be saved"}
    ELSE {"deadlock found", "serialization failure", "lock wait timeout",
          "could not save source item", "the shipment couldn't be saved"}

\* (messageFromData || err.message || '').toLowerCase()
ClassifiedMessage(err) ==
    toLowerCase(IF err.data # "" THEN err.data ELSE err.message)

\* A classifier that gives up on a rate-limited request.
isTransientErrorWithout429(b, err) ==
    IF ~err.axios THEN FALSE
    ELSE IF err.status = 0 THEN TRUE
    ELSE IF err.status = 408 \/ err.status >= 500 THEN TRUE
    ELSE IF err.status = 400
         THEN LET message == ClassifiedMessage(err)
              IN \E p \in KnownRetriables(b) : Includes(message, p)
    ELSE FALSE

\* A classifier that retries whatever is not a client error.
isTransientErrorUnlessClientError(b, err) ==
    ~err.axios \/ err.status = 0 \/ err.status >= 500

isTransientError(b, err) ==
    IF ~err.axios THEN FALSE
    ELSE IF err.status = 0 THEN TRUE
    ELSE IF err.status = 408 \/ err.status = 429 \/ err.status >= 500 THEN TRUE
    ELSE IF err.status = 400
         THEN LET message == ClassifiedMessage(err)
              IN \E p \in KnownRetriables(b) : Includes(message, p)
    ELSE FALSE

\* ------------------------------------------------------------ the store
\* A SELECT without FOR UPDATE: no row is ever held.
NeverLocked(id) == FALSE

\* Whether an open claim transaction holds the row's lock.
Locked(id) == \E w \in Workers : \E i \in 1..Len(tx[w].rows) : tx[w].rows[i].id = id

\* A claim that also takes FAILED jobs.
ClaimStatusesWithFailed(impl) == {"PENDING", "RETRY", "FAILED"}

ClaimStatuses(impl) ==
    IF impl = "service" THEN {"PENDING", "RETRY"} ELSE {"PENDING"}

\* Due-ness without the next_run_at condition.
IsDueIgnoringBackoff(impl, id) == jobs[id].status \in ClaimStatuses(impl)

IsDue(impl, id) ==
    /\ jobs[id].status \in ClaimStatuses(impl)
    /\ (jobs[id].next_run_at = NullTime \/ jobs[id].next_run_at <= now)

\* A claim that lets the rows another claim holds count against its limit.
SelectDueDropLocked(impl, limit) ==
    SelectSeq(Take(SortAsc({id \in JobIds : IsDue(impl, id)}), limit),
              LAMBDA id : ~Locked(id))

\* SELECT ... WHERE due ORDER BY id ASC LIMIT limit FOR UPDATE SKIP LOCKED
SelectDue(impl, limit) ==
    Take(SortAsc({id \in JobIds : IsDue(impl, id) /\ ~Locked(id)}), limit)

IdleTx == [pc |-> "idle", limit |-> 0, rows |-> <<>>]

NewJob(type, order, maxAttempts) ==
    [type |-> type, order |-> order, status |-> "PENDING", attempts |-> 0,
     max_attempts |-> maxAttempts, next_run_at |-> NullTime, last_error |-> NULL]

\* getDueJobs, first statement: open the transaction, select and lock.
ClaimSelect(w, impl, limit) ==
    /\ tx[w].pc = "idle"
    /\ queue[w] = <<>>
    /\ active[w] = {}
    /\ issued.claims < MaxClaims
    /\ issued' = [issued EXCEPT !.claims = issued.claims + 1]
    /\ LET ids == SelectDue(impl, limit)
       IN tx' = [tx EXCEPT ![w] =
                   [pc |-> "selected", limit |-> limit,
                    rows |-> [i \in 1..Len(ids) |->
                                [id |-> ids[i], attempts |-> jobs[ids[i]].attempts]]]]
    /\ UNCHANGED <<build, now, jobs, queue, active, op, imp, orders, remote, rule, worker>>

\* processBatch's pool: runNext shifts the next job off the local queue and
\* calls runJobWithRetry on it, which invokes the handler, in the same turn in
\* which the claim returned or the previous job of the runner was written.
PoolStarts(act, q) == Min(JOBS_CONCURRENCY - Cardinality(act), Len(q))
Started(act, q) == act \cup {q[i] : i \in 1..PoolStarts(act, q)}
Waiting(act, q) == SubSeq(q, PoolStarts(act, q) + 1, Len(q))

\* getDueJobs, the rest: mark the rows RUNNING, bump attempts, commit, return
\* the updated copies, which processBatch hands to its pool.  With no rows the
\* call returns [] and writes nothing.
ClaimCommit(w) ==
    /\ tx[w].pc = "selected"
    /\ LET rows == tx[w].rows
           ids == {rows[i].id : i \in 1..Len(rows)}
           returned == [i \in 1..Len(rows) |->
                          [id |-> rows[i].id, attempts |-> rows[i].attempts + 1]]
       IN /\ jobs' = [id \in JobIds |->
                        IF id \in ids
                        THEN [jobs[id] EXCEPT !.status = "RUNNING",
                                              !.attempts = jobs[id].attempts + 1]
                        ELSE jobs[id]]
          /\ active' = [active EXCEPT ![w] = Started(active[w], returned)]
          /\ queue' = [queue EXCEPT ![w] = Waiting(active[w], returned)]
    /\ tx' = [tx EXCEPT ![w] = IdleTx]
    /\ UNCHANGED <<build, now, op, imp, issued, orders, remote, rule, worker>>

\* ------------------------------------------------------------ the runner
\* The handler the worker passes to runJobWithRetry: a job without order_id in
\* its payload (the IMPORT_ORDERS row) makes it throw a plain Error; for the
\* other types the workflow handler returns or throws.
HandlerResults(row) ==
    IF row.type \in OrderJobTypes
    THEN {[ok |-> TRUE, err |-> ErrMissingOrderId]}
           \cup {[ok |-> FALSE, err |-> e] : e \in HandlerErrors}
    ELSE {[ok |-> FALSE, err |-> ErrMissingOrderId]}

\* A backoff that shrinks as the attempts go up.
RetryDelayShrinking(b, attempt) == BackoffSeconds * (DefaultMaxAttempts - attempt)

RetryDelay(b, attempt) ==
    IF b = "linear" THEN BackoffSeconds * attempt
    ELSE BackoffSeconds * Pow2(attempt - 1)

\* The attempts column as the runner's UPDATE leaves it: the linear version
\* writes the snapshot's attempts back, the exponential one leaves the column.
RunnerAttempts(b, row, snap) ==
    IF b = "linear" THEN snap.attempts ELSE row.attempts

markJobDone(b, row, snap) ==
    [row EXCEPT !.status = "DONE", !.attempts = RunnerAttempts(b, row, snap),
                !.last_error = NULL]

markJobFailedPermanent(b, row, snap, message) ==
    [row EXCEPT !.status = "FAILED", !.attempts = RunnerAttempts(b, row, snap),
                !.last_error = message]

scheduleJobRetry(b, row, snap, message) ==
    [row EXCEPT !.status = "RETRY", !.attempts = RunnerAttempts(b, row, snap),
                !.last_error = message,
                !.next_run_at = now + RetryDelay(b, snap.attempts)]

\* A runner that allows one attempt more than max_attempts.
RunnerWriteOffByOne(b, row, snap, result) ==
    IF result.ok THEN markJobDone(b, row, snap)
    ELSE IF ~isTransientError(b, result.err) \/ snap.attempts > row.max_attempts
         THEN markJobFailedPermanent(b, row, snap, result.err.message)
    ELSE scheduleJobRetry(b, row, snap, result.err.message)

\* The row as runJobWithRetry's one UPDATE ... WHERE id = job.id leaves it.
RunnerWrite(b, row, snap, result) ==
    IF result.ok THEN markJobDone(b, row, snap)
    ELSE IF ~isTransientError(b, result.err) \/ snap.attempts >= row.max_attempts
         THEN markJobFailedPermanent(b, row, snap, result.err.message)
    ELSE scheduleJobRetry(b, row, snap, result.err.message)

\* The handler settles and runJobWithRetry writes the outcome by id; the
\* runner then takes the next job of the batch.
runJobWithRetry(w, snap, result) ==
    /\ snap \in active[w]
    /\ result \in HandlerResults(jobs[snap.id])
    /\ ~Locked(snap.id)
    /\ jobs' = [jobs EXCEPT ![snap.id] = RunnerWrite(build, jobs[snap.id], snap, result)]
    /\ active' = [active EXCEPT ![w] = Started(active[w] \ {snap}, queue[w])]
    /\ queue' = [queue EXCEPT ![w] = Waiting(active[w] \ {snap}, queue[w])]
    /\ UNCHANGED <<build, now, tx, op, imp, issued, orders, remote, rule, worker>>

\* ------------------------------------------------------------ enqueue
IdleOp ==
    [pc |-> "idle", impl |-> "service", type |-> NULL, order |-> 0,
     target |-> 0, via |-> 0, seen |-> NULL]

\* A re-enable that also takes a job waiting for its retry.
ResetStatusesWithRetry(impl) == {"FAILED", "DONE", "RETRY"}

\* A re-enable that also takes a job some worker is running.
ResetStatusesWithRunning(impl) == {"FAILED", "DONE", "RUNNING"}

\* The statuses an existing job is re-enabled from.
ResetStatuses(impl) ==
    IF impl = "service" THEN {"FAILED", "DONE"} ELSE {"FAILED"}

ReEnabled(row) ==
    [row EXCEPT !.status = "PENDING", !.attempts = 0, !.last_error = NULL,
                !.next_run_at = NullTime]

InsertMaxAttempts(impl) ==
    IF impl = "service" THEN DefaultMaxAttempts ELSE RepositoryMaxAttempts

\* Where a request goes once its create*JobIfNotExists call has returned: the
\* retry endpoint still clears last_error of the job it was called for.
AfterEnsure(o, seen) ==
    IF o.via # 0 THEN [IdleOp EXCEPT !.pc = "clear", !.via = o.via, !.seen = seen]
    ELSE IdleOp

\* ensureJob / create*JobIfNotExists, first statement: look the job up.  With
\* several rows of the type and order, .first() returns one of them.
ensureRead(c, impl, type, order, via) ==
    /\ op[c].pc = "idle"
    /\ issued.requests < MaxRequests
    /\ issued' = [issued EXCEPT !.requests = issued.requests + 1]
    /\ LET matches == {id \in JobIds : jobs[id].type = type /\ jobs[id].order = order}
       IN IF matches = {}
          THEN op' = [op EXCEPT ![c] =
                        [IdleOp EXCEPT !.pc = "insert", !.impl = impl, !.type = type,
                                       !.order = order, !.via = via]]
          ELSE \E id \in matches :
                 op' = [op EXCEPT ![c] =
                          IF jobs[id].status \in ResetStatuses(impl)
                          THEN [IdleOp EXCEPT !.pc = "reset", !.target = id, !.via = via,
                                              !.seen = jobs[id].status]
                          ELSE AfterEnsure([IdleOp EXCEPT !.via = via], jobs[id].status)]
    /\ UNCHANGED <<build, now, jobs, tx, queue, active, imp, orders, remote, rule, worker>>

\* A caller (import, workflow handler, POST /orders/:id/retry) enqueues.
createJobIfNotExists(c, impl, type, order) ==
    /\ impl = "repository" => type = SYNC
    /\ ensureRead(c, impl, type, order, 0)

\* POST /jobs/:id/retry: look the job up, call the create function of its type.
retryJob(c, id) ==
    /\ id \in JobIds
    /\ jobs[id].type \in OrderJobTypes
    /\ ensureRead(c, "service", jobs[id].type, jobs[id].order, id)

\* ensureJob, the re-enable: UPDATE ... WHERE id = existing.id
ensureReset(c) ==
    /\ op[c].pc = "reset"
    /\ ~Locked(op[c].target)
    /\ jobs' = [jobs EXCEPT ![op[c].target] = ReEnabled(jobs[op[c].target])]
    /\ op' = [op EXCEPT ![c] = AfterEnsure(op[c], op[c].seen)]
    /\ UNCHANGED <<build, now, tx, queue, active, imp, issued, orders, remote, rule, worker>>

\* ensureJob, the insert of a new PENDING row.
ensureInsert(c) ==
    /\ op[c].pc = "insert"
    /\ jobs' = Append(jobs, NewJob(op[c].type, op[c].order, InsertMaxAttempts(op[c].impl)))
    /\ op' = [op EXCEPT ![c] = AfterEnsure(op[c], "NONE")]
    /\ UNCHANGED <<build, now, tx, queue, active, imp, issued, orders, remote, rule, worker>>

\* POST /jobs/:id/retry, last statement: clear last_error of the job named.
retryClear(c) ==
    /\ op[c].pc = "clear"
    /\ ~Locked(op[c].via)
    /\ jobs' = [jobs EXCEPT ![op[c].via].last_error = NULL]
    /\ op' = [op EXCEPT ![c] = IdleOp]
    /\ UNCHANGED <<build, now, tx, queue, active, imp, issued, orders, remote, rule, worker>>

\* ------------------------------------------------------------ import
IdleImport == [pc |-> "idle", jobId |-> 0]

ImportFinalRow(row, finalStatus) ==
    [row EXCEPT !.status = finalStatus,
                !.last_error = IF finalStatus = "FAILED" THEN "Failed orders: 1" ELSE NULL]

\* importOrdersFromFiles inserts its bookkeeping job.
importBegin ==
    /\ imp.pc = "idle"
    /\ issued.imports < MaxImports
    /\ issued' = [issued EXCEPT !.imports = issued.imports + 1]
    /\ jobs' = Append(jobs, NewJob(IMPORT_JOB_TYPE, 0, ImportMaxAttempts))
    /\ imp' = [pc |-> "running", jobId |-> Len(jobs) + 1]
    /\ UNCHANGED <<build, now, tx, queue, active, op, orders, remote, rule, worker>>

\* importOrdersFromFiles writes the final status of its bookkeeping job.
importFinish(finalStatus) ==
    /\ imp.pc = "running"
    /\ ~Locked(imp.jobId)
    /\ jobs' = [jobs EXCEPT ![imp.jobId] = ImportFinalRow(jobs[imp.jobId], finalStatus)]
    /\ imp' = IdleImport
    /\ UNCHANGED <<build, now, tx, queue, active, op, issued, orders, remote, rule, worker>>

\* ------------------------------------------------------------ time
Tick ==
    /\ now < MaxTicks * BackoffSeconds
    /\ now' = now + BackoffSeconds
    /\ UNCHANGED <<build, jobs, tx, queue, active, op, imp, issued, orders, remote, rule, worker>>

\* ------------------------------------------------------------ orders
\* An imported order: no remote order reference, not invoiced, not shipped.
NewOrder ==
    [status |-> "PENDING", magento_order_id |-> 0, magento_increment_id |-> NULL,
     magento_invoice_id |-> 0, invoiced_at |-> NullTime,
     magento_shipment_id |-> 0, shipped_at |-> NullTime]

NoRemote == [calls |-> 0, orders |-> 0, invoices |-> 0, shipments |-> 0]

Rules == [autoInvoice : BOOLEAN, autoShip : BOOLEAN]

DEFAULT_CHANNEL_RULE == [autoInvoice |-> TRUE, autoShip |-> FALSE]

\* The orders, the remote shop and the channel rule before any handler ran.
NoWorkflowYet ==
    /\ orders = [o \in Orders |-> NewOrder]
    /\ remote = NoRemote
    /\ rule = DEFAULT_CHANNEL_RULE

\* The slot worker's process as it starts: not shutting down, no processJob
\* call in flight (refused: the jobs whose handler found isShuttingDown set
\* when it was called; pc: how far shutdown() of the server has come).
WorkerUp ==
    [isShuttingDown |-> FALSE, activeJobsCount |-> 0, refused |-> {}, pc |-> "up"]

\* The tables a run starts from: empty, or one SYNC job as an earlier import
\* and an earlier worker run left it (new; run once and DONE; run once and
\* FAILED on a permanent error).
SeedJobs ==
    LET fresh == NewJob(SYNC, 1, DefaultMaxAttempts)
    IN {fresh,
        [fresh EXCEPT !.status = "DONE", !.attempts = 1],
        [fresh EXCEPT !.status = "FAILED", !.attempts = 1,
                      !.last_error = ErrNotFound.message]}

SeedTables == {<<>>} \cup {<<j>> : j \in SeedJobs}

Init ==
    /\ build \in Builds
    /\ now = 0
    /\ jobs \in SeedTables
    /\ tx = [w \in Workers |-> IdleTx]
    /\ queue = [w \in Workers |-> <<>>]
    /\ active = [w \in Workers |-> {}]
    /\ op = [c \in Clients |-> IdleOp]
    /\ imp = IdleImport
    /\ issued = [claims |-> 0, requests |-> 0, imports |-> 0]
    /\ NoWorkflowYet
    /\ worker = WorkerUp

Next ==
    \/ \E w \in Workers, limit \in 1..MaxLimit : ClaimSelect(w, "service", limit)
    \/ \E w \in Workers : ClaimCommit(w)
    \/ \E w \in Workers : \E snap \in active[w] :
          \E result \in HandlerResults(jobs[snap.id]) : runJobWithRetry(w, snap, result)
    \/ \E c \in Clients, type \in EnqueueTypes, order \in Orders :
          createJobIfNotExists(c, "service", type, order)
    \/ \E c \in Clients : ensureReset(c)
    \/ \E c \in Clients : ensureInsert(c)
    \/ Tick

\* Workers and callers of services/jobsService.ts against one jobs table.
Spec == Init /\ [][Next]_vars

\* One worker and one client with every entry point of the job store: both
\* enqueue and claim implementations and the operator's retry endpoint.
NextOps ==
    \/ \E impl \in Impls, limit \in 1..MaxLimit : ClaimSelect("w1", impl, limit)
    \/ ClaimCommit("w1")
    \/ \E snap \in active["w1"] :
          \E result \in HandlerResults(jobs[snap.id]) : runJobWithRetry("w1", snap, result)
    \/ \E impl \in Impls, type \in EnqueueTypes, order \in Orders :
          createJobIfNotExists("c1", impl, type, order)
    \/ \E id \in JobIds : retryJob("c1", id)
    \/ ensureReset("c1")
    \/ ensureInsert("c1")
    \/ retryClear("c1")
    \/ Tick

SpecOps == Init /\ [][NextOps]_vars

\* The import with its bookkeeping job, one worker and one caller.
NextImport ==
    \/ importBegin
    \/ \E finalStatus \in {"DONE", "FAILED"} : importFinish(finalStatus)
    \/ \E limit \in 1..MaxLimit : ClaimSelect("w1", "service", limit)
    \/ ClaimCommit("w1")
    \/ \E snap \in active["w1"] :
          \E result \in HandlerResults(jobs[snap.id]) : runJobWithRetry("w1", snap, result)
    \/ \E order \in Orders : createJobIfNotExists("c1", "service", SYNC, order)
    \/ ensureReset("c1")
    \/ ensureInsert("c1")
    \/ Tick

SpecImport == Init /\ [][NextImport]_vars

\* Concurrent claims alone: a fixed table, the workers' getDueJobs calls and
\* no other operation.  The rows are the forms a job takes in the table.
SeedRows ==
    LET fresh == NewJob(SYNC, 1, DefaultMaxAttempts)
        retry == [fresh EXCEPT !.status = "RETRY", !.attempts = 1,
                               !.last_error = ErrUnavailable.message]
    IN {fresh,
        [retry EXCEPT !.next_run_at = 0],
        [retry EXCEPT !.next_run_at = BackoffSeconds],
        [fresh EXCEPT !.status = "RUNNING", !.attempts = 1],
        [fresh EXCEPT !.status = "DONE", !.attempts = 1],
        [fresh EXCEPT !.status = "FAILED", !.attempts = 1,
                      !.last_error = ErrNotFound.message]}

\* Tables of n jobs, one per order.
SeedTablesOfLength(n) ==
    {[i \in 1..n |-> [rows[i] EXCEPT !.order = i]] : rows \in [1..n -> SeedRows]}

InitClaim ==
    /\ build = "exponential"
    /\ now = 0
    /\ jobs \in UNION {SeedTablesOfLength(n) : n \in 1..MaxSeedRows}
    /\ tx = [w \in Workers |-> IdleTx]
    /\ queue = [w \in Workers |-> <<>>]
    /\ active = [w \in Workers |-> {}]
    /\ op = [c \in Clients |-> IdleOp]
    /\ imp = IdleImport
    /\ issued = [claims |-> 0, requests |-> 0, imports |-> 0]
    /\ NoWorkflowYet
    /\ worker = WorkerUp

NextClaim ==
    \/ \E w \in Workers, limit \in 1..MaxLimit : ClaimSelect(w, "service", limit)
    \/ \E w \in Workers : ClaimCommit(w)

SpecClaim == InitClaim /\ [][NextClaim]_vars

\* ---------------------------------------------------------- worker loops
\* The claim, runner and loop steps as the worker loops take them, with no cap
\* on the number of polls.
MarkedRunning(rows) ==
    LET ids == {rows[i].id : i \in 1..Len(rows)}
    IN [id \in JobIds |->
          IF id \in ids
          THEN [jobs[id] EXCEPT !.status = "RUNNING", !.attempts = jobs[id].attempts + 1]
          ELSE jobs[id]]

ReturnedCopies(rows) ==
    [i \in 1..Len(rows) |-> [id |-> rows[i].id, attempts |-> rows[i].attempts + 1]]

\* getDueJobs up to the awaited select.
getDueJobsSelect(w, limit) ==
    /\ tx[w].pc = "idle"
    /\ LET ids == SelectDue("service", limit)
       IN tx' = [tx EXCEPT ![w] =
                   [pc |-> "selected", limit |-> limit,
                    rows |-> [i \in 1..Len(ids) |->
                                [id |-> ids[i], attempts |-> jobs[ids[i]].attempts]]]]
    /\ UNCHANGED <<build, now, jobs, queue, active, op, imp, issued, orders, remote, rule, worker>>

\* A claim whose update outlives the failed call.
getDueJobsFailsKeepingUpdate(w) ==
    /\ tx[w].pc \in {"idle", "selected"}
    /\ jobs' = MarkedRunning(tx[w].rows)
    /\ tx' = [tx EXCEPT ![w] = [IdleTx EXCEPT !.pc = "caught"]]
    /\ UNCHANGED <<build, now, queue, active, op, imp, issued, orders, remote, rule, worker>>

\* A storage error inside getDueJobs: the select (no row locked yet) or the
\* update rejects, knex rolls the transaction back, the error reaches the
\* catch of the loop, which logs it and sleeps the poll interval.
getDueJobsFails(w) ==
    /\ tx[w].pc \in {"idle", "selected"}
    /\ tx' = [tx EXCEPT ![w] = [IdleTx EXCEPT !.pc = "caught"]]
    /\ UNCHANGED <<build, now, jobs, queue, active, op, imp, issued, orders, remote, rule, worker>>

\* The sleep after a caught error ends; the loop polls again.
loopSleepEnds(w) ==
    /\ tx[w].pc = "caught"
    /\ tx' = [tx EXCEPT ![w] = IdleTx]
    /\ UNCHANGED <<build, now, jobs, queue, active, op, imp, issued, orders, remote, rule, worker>>

\* A runner that calls the handler again when it threw.
AfterHandlerRetrying(act, snap, result) ==
    IF result.ok THEN act \ {snap} ELSE act

\* The handler calls in progress once runJobWithRetry has written the outcome
\* of one: the function returns, whatever the outcome.
AfterHandler(act, snap, result) == act \ {snap}

\* runJobWithRetry with any handler outcome, in a pool of c runners.
runJobSettles(w, c, snap, result) ==
    /\ snap \in active[w]
    /\ ~Locked(snap.id)
    /\ jobs' = [jobs EXCEPT ![snap.id] = RunnerWrite(build, jobs[snap.id], snap, result)]
    /\ LET act == AfterHandler(active[w], snap, result)
           starts == Min(c - Cardinality(act), Len(queue[w]))
       IN /\ starts >= 0
          /\ active' = [active EXCEPT ![w] = act \cup {queue[w][i] : i \in 1..starts}]
          /\ queue' = [queue EXCEPT ![w] = SubSeq(queue[w], starts + 1, Len(queue[w]))]
    /\ UNCHANGED <<build, now, tx, op, imp, issued, orders, remote, rule, worker>>

\* The errors of the remote calls and of the handlers themselves.
ResponseStatuses == {400, 404, 408, 409, 429, 500, 503}

ResponseMessages ==
    {"",
     "Deadlock found when trying to get lock; try restarting transaction",
     "deadlock found",
     "Serialization failure: 1213",
     "SQLSTATE[40001]: Serialization failure",
     "Lock wait timeout exceeded",
     "Could not save Source Item",
     "The shipment couldn't be saved",
     "The invoice could not be saved",
     "The requested qty is not available"}

PlainMessages ==
    {"Job payload is missing order_id", "Worker shutting down",
     "connect ECONNREFUSED 127.0.0.1:3306"}

ThrownErrors ==
    {AxiosError(st, d) : st \in ResponseStatuses, d \in ResponseMessages}
        \cup {AxiosError(0, "")}
        \cup {PlainError(m) : m \in PlainMessages}

AnyHandlerResults(row) ==
    IF row.type \in OrderJobTypes
    THEN {[ok |-> TRUE, err |-> ErrMissingOrderId]}
           \cup {[ok |-> FALSE, err |-> e] : e \in ThrownErrors}
    ELSE {[ok |-> FALSE, err |-> ErrMissingOrderId]}

TickRun ==
    /\ now < MaxRunTicks * BackoffSeconds
    /\ now' = now + BackoffSeconds
    /\ UNCHANGED <<build, jobs, tx, queue, active, op, imp, issued, orders, remote, rule, worker>>

\* One batch worker and one job, with every handler outcome, until the job is
\* DONE or FAILED.
InitRun ==
    /\ build \in Builds
    /\ now = 0
    /\ jobs \in {<<NewJob(SYNC, 1, m)>> : m \in {RepositoryMaxAttempts, DefaultMaxAttempts}}
    /\ tx = [w \in Workers |-> IdleTx]
    /\ queue = [w \in Workers |-> <<>>]
    /\ active = [w \in Workers |-> {}]
    /\ op = [c \in Clients |-> IdleOp]
    /\ imp = IdleImport
    /\ issued = [claims |-> 0, requests |-> 0, imports |-> 0]
    /\ NoWorkflowYet
    /\ worker = WorkerUp

NextRun ==
    \/ \E limit \in 1..MaxLimit :
          queue["w1"] = <<>> /\ active["w1"] = {} /\ getDueJobsSelect("w1", limit)
    \/ ClaimCommit("w1")
    \/ \E snap \in active["w1"] :
          \E result \in AnyHandlerResults(jobs[snap.id]) :
             runJobSettles("w1", JOBS_CONCURRENCY, snap, result)
    \/ TickRun

SpecRun == InitRun /\ [][NextRun]_vars

\* The two worker loops side by side on one table: w1 runs the batch loop
\* (processBatch and its pool), w2 the slot loop (activeJobsCount).
BatchWorker == "w1"
SlotWorker == "w2"

\* A pool that starts a runner for every job of the batch.
poolSizeWholeBatch(c, n) == n

\* processBatch: poolSize = Math.min(JOBS_CONCURRENCY, jobs.length)
poolSize(c, n) == Min(c, n)

\* A runner that returns after its job without looking at the queue.
runNextTakesNone(q) == 0

\* runNext after its job: queue.shift(), one job if the queue has one.
runNextTakes(q) == Min(1, Len(q))

\* The slot loop: freeSlots = JOBS_CONCURRENCY - activeJobsCount
freeSlots(c, count) == c - count

\* processBatch, first statement: getDueJobs(JOBS_BATCH_SIZE).  The loop calls
\* processBatch again only when the call before has returned.
processBatchPolls(w) ==
    /\ queue[w] = <<>>
    /\ active[w] = {}
    /\ getDueJobsSelect(w, BatchSize)

\* getDueJobs returns to processBatch: the rows are RUNNING, the copies go to
\* the queue and poolSize runners each shift one.  With no rows processBatch
\* returns false and the loop sleeps.
processBatchStarts(w) ==
    /\ tx[w].pc = "selected"
    /\ LET returned == ReturnedCopies(tx[w].rows)
           n == poolSize(BatchConcurrency, Len(returned))
       IN /\ jobs' = MarkedRunning(tx[w].rows)
          /\ active' = [active EXCEPT ![w] = active[w] \cup {returned[i] : i \in 1..n}]
          /\ queue' = [queue EXCEPT ![w] = SubSeq(returned, n + 1, Len(returned))]
    /\ tx' = [tx EXCEPT ![w] = IdleTx]
    /\ UNCHANGED <<build, now, op, imp, issued, orders, remote, rule, worker>>

\* One runner of the pool: runJobWithRetry settles, then runNext shifts the
\* next job of the queue and starts it.
runNext(w, snap, result) ==
    /\ snap \in active[w]
    /\ ~Locked(snap.id)
    /\ jobs' = [jobs EXCEPT ![snap.id] = RunnerWrite(build, jobs[snap.id], snap, result)]
    /\ LET n == runNextTakes(queue[w])
       IN /\ active' = [active EXCEPT ![w] =
                          AfterHandler(active[w], snap, result)
                             \cup {queue[w][i] : i \in 1..n}]
          /\ queue' = [queue EXCEPT ![w] = SubSeq(queue[w], n + 1, Len(queue[w]))]
    /\ UNCHANGED <<build, now, tx, op, imp, issued, orders, remote, rule, worker>>

\* The slot loop, one iteration up to the awaited getDueJobs(freeSlots); with
\* no free slot it sleeps 200 ms and looks again.
slotLoopPolls(w) ==
    /\ ~worker.isShuttingDown
    /\ freeSlots(SlotConcurrency, worker.activeJobsCount) > 0
    /\ getDueJobsSelect(w, freeSlots(SlotConcurrency, worker.activeJobsCount))

\* The handler of processJob, first statement: if (isShuttingDown) throw.  It
\* is reached in the turn in which the job is dispatched.
RefusedAtDispatch(proc, ids) ==
    IF proc.isShuttingDown THEN proc.refused \cup ids ELSE proc.refused

ShuttingDown == PlainError("Worker shutting down")

\* A counter that is decremented only when processJob comes back without an
\* exception having been caught.
CountedOutOnSuccess(count, result) == IF result.ok THEN count - 1 ELSE count

\* processJob(...).finally(() => { activeJobsCount-- })
CountedOut(count, result) == count - 1

\* getDueJobs returns to the slot loop: jobs.forEach counts every job in and
\* starts processJob for it without awaiting.
slotLoopStarts(w) ==
    /\ tx[w].pc = "selected"
    /\ LET returned == ReturnedCopies(tx[w].rows)
       IN /\ jobs' = MarkedRunning(tx[w].rows)
          /\ active' = [active EXCEPT ![w] =
                          active[w] \cup {returned[i] : i \in 1..Len(returned)}]
          /\ worker' = [worker EXCEPT
                          !.activeJobsCount = @ + Len(returned),
                          !.refused = RefusedAtDispatch(worker,
                                         {returned[i].id : i \in 1..Len(returned)})]
    /\ tx' = [tx EXCEPT ![w] = IdleTx]
    /\ UNCHANGED <<build, now, queue, op, imp, issued, orders, remote, rule>>

\* processJob: runJobWithRetry settles, finally counts the job out.
processJob(w, snap, result) ==
    /\ snap \in active[w]
    /\ ~Locked(snap.id)
    /\ snap.id \in worker.refused <=> result = [ok |-> FALSE, err |-> ShuttingDown]
    /\ jobs' = [jobs EXCEPT ![snap.id] = RunnerWrite(build, jobs[snap.id], snap, result)]
    /\ active' = [active EXCEPT ![w] = AfterHandler(active[w], snap, result)]
    /\ worker' = [worker EXCEPT
                    !.activeJobsCount = CountedOut(worker.activeJobsCount, result),
                    !.refused = @ \ {snap.id}]
    /\ UNCHANGED <<build, now, tx, queue, op, imp, issued, orders, remote, rule>>

\* getDueJobs rejects inside processBatch: the error leaves processBatch and
\* reaches the catch of startWorkerLoop.
processBatchFails(w) ==
    /\ tx[w].pc = "selected" \/ (queue[w] = <<>> /\ active[w] = {})
    /\ getDueJobsFails(w)

\* getDueJobs rejects inside the slot loop's try.
slotLoopFails(w) ==
    /\ \/ tx[w].pc = "selected"
       \/ ~worker.isShuttingDown /\ freeSlots(SlotConcurrency, worker.activeJobsCount) > 0
    /\ getDueJobsFails(w)

\* New jobs only, as an import leaves them.
InitLoop ==
    /\ build \in Builds
    /\ now = 0
    /\ jobs \in {[i \in 1..n |-> NewJob(SYNC, i, DefaultMaxAttempts)] : n \in 1..MaxLoopJobs}
    /\ tx = [w \in Workers |-> IdleTx]
    /\ queue = [w \in Workers |-> <<>>]
    /\ active = [w \in Workers |-> {}]
    /\ op = [c \in Clients |-> IdleOp]
    /\ imp = IdleImport
    /\ issued = [claims |-> 0, requests |-> 0, imports |-> 0]
    /\ NoWorkflowYet
    /\ worker = WorkerUp

NextLoop ==
    \/ processBatchPolls(BatchWorker)
    \/ processBatchStarts(BatchWorker)
    \/ \E snap \in active[BatchWorker] :
          \E result \in HandlerResults(jobs[snap.id]) : runNext(BatchWorker, snap, result)
    \/ slotLoopPolls(SlotWorker)
    \/ slotLoopStarts(SlotWorker)
    \/ \E snap \in active[SlotWorker] :
          \E result \in HandlerResults(jobs[snap.id]) : processJob(SlotWorker, snap, result)
    \/ processBatchFails(BatchWorker)
    \/ slotLoopFails(SlotWorker)
    \/ \E w \in Workers : loopSleepEnds(w)

SpecLoop == InitLoop /\ [][NextLoop]_vars

\* The rejection of a job table call while the database cannot be reached.
StorageError == PlainError("connect ECONNREFUSED 127.0.0.1:3306")

\* The row as runJobWithRetry leaves it when its UPDATE rejects.  After a
\* handler that returned, the rejection of the DONE update lands in the catch,
\* is classified like a handler error (permanent: not an axios error) and the
\* FAILED update is tried: it goes through if the database is back (recovered),
\* else it rejects too.  After a handler that threw, the rejected update is the
\* last statement.  A rejection leaves the row as the claim left it and leaves
\* runJobWithRetry as an exception.
RunnerWriteFailing(b, row, snap, result, recovered) ==
    IF result.ok /\ recovered
    THEN markJobFailedPermanent(b, row, snap, StorageError.message)
    ELSE row

\* A loop that does not come back from its catch.
loopStaysDown(w) ==
    /\ tx[w].pc = "caught"
    /\ UNCHANGED vars

\* The catch of the loop: sleep the poll interval, go round again.
loopResumes(w) == loopSleepEnds(w)

\* runNext with a failing UPDATE: the catch around runJobWithRetry logs the
\* exception and runNext goes on to the next job of the queue.
runNextWriteFails(w, snap, result, recovered) ==
    /\ snap \in active[w]
    /\ ~Locked(snap.id)
    /\ recovered => result.ok
    /\ jobs' = [jobs EXCEPT ![snap.id] =
                  RunnerWriteFailing(build, jobs[snap.id], snap, result, recovered)]
    /\ LET n == runNextTakes(queue[w])
       IN /\ active' = [active EXCEPT ![w] =
                          (active[w] \ {snap}) \cup {queue[w][i] : i \in 1..n}]
          /\ queue' = [queue EXCEPT ![w] = SubSeq(queue[w], n + 1, Len(queue[w]))]
    /\ UNCHANGED <<build, now, tx, op, imp, issued, orders, remote, rule, worker>>

\* processJob with a failing UPDATE: its catch logs, finally counts out.
processJobWriteFails(w, snap, result, recovered) ==
    /\ snap \in active[w]
    /\ ~Locked(snap.id)
    /\ recovered => result.ok
    /\ jobs' = [jobs EXCEPT ![snap.id] =
                  RunnerWriteFailing(build, jobs[snap.id], snap, result, recovered)]
    /\ active' = [active EXCEPT ![w] = active[w] \ {snap}]
    /\ worker' = [worker EXCEPT
                    !.activeJobsCount = CountedOut(worker.activeJobsCount, result)]
    /\ UNCHANGED <<build, now, tx, queue, op, imp, issued, orders, remote, rule>>

\* The steps of each loop and of its runners, for the fairness below.
BatchLoopStep ==
    \/ processBatchPolls(BatchWorker)
    \/ processBatchStarts(BatchWorker)
    \/ processBatchFails(BatchWorker)
    \/ loopResumes(BatchWorker)

SlotLoopStep ==
    \/ slotLoopPolls(SlotWorker)
    \/ slotLoopStarts(SlotWorker)
    \/ slotLoopFails(SlotWorker)
    \/ loopResumes(SlotWorker)

BatchRunnerStep ==
    \E snap \in active[BatchWorker] :
       \E result \in HandlerResults(jobs[snap.id]) :
          \/ runNext(BatchWorker, snap, result)
          \/ \E recovered \in BOOLEAN :
                runNextWriteFails(BatchWorker, snap, result, recovered)

SlotRunnerStep ==
    \E snap \in active[SlotWorker] :
       \E result \in HandlerResults(jobs[snap.id]) :
          \/ processJob(SlotWorker, snap, result)
          \/ \E recovered \in BOOLEAN :
                processJobWriteFails(SlotWorker, snap, result, recovered)

NextFaulty ==
    \/ BatchLoopStep
    \/ SlotLoopStep
    \/ BatchRunnerStep
    \/ SlotRunnerStep

InitFaulty ==
    /\ build = "linear"
    /\ now = 0
    /\ jobs \in {[i \in 1..n |-> NewJob(SYNC, i, DefaultMaxAttempts)] : n \in 1..MaxFaultyJobs}
    /\ tx = [w \in Workers |-> IdleTx]
    /\ queue = [w \in Workers |-> <<>>]
    /\ active = [w \in Workers |-> {}]
    /\ op = [c \in Clients |-> IdleOp]
    /\ imp = IdleImport
    /\ issued = [claims |-> 0, requests |-> 0, imports |-> 0]
    /\ NoWorkflowYet
    /\ worker = WorkerUp

\* Both loops with a database that may reject any call.  Each loop is a
\* running process whose awaited calls and sleeps return, and every handler
\* call settles.
SpecFaulty ==
    /\ InitFaulty
    /\ [][NextFaulty]_vars
    /\ WF_vars(BatchLoopStep)
    /\ WF_vars(SlotLoopStep)
    /\ WF_vars(BatchRunnerStep)
    /\ WF_vars(SlotRunnerStep)

\* ------------------------------------------------- workflow handlers
\* What goes wrong in one handler call: at most one of the steps the handler
\* cannot go on without (core: "remote" the remote creation, "persist" the
\* update of the order row, "enqueue" resolving the rule or enqueuing the
\* successor), and any of the remote calls made beside them.
SyncSideEffects == {"getOrderById", "attachCustomerAndBackdate", "addOrderComment"}
InvoiceSideEffects == {"backdateInvoice"}
ShipSideEffects == {"backdateShipment"}

SideEffects(type) ==
    IF type = SYNC THEN SyncSideEffects
    ELSE IF type = INVOICE THEN InvoiceSideEffects
    ELSE IF type = SHIP THEN ShipSideEffects
    ELSE {}

CoreFaults == {"none", "remote", "persist", "enqueue"}

Faults(type) == [core : CoreFaults, side : SUBSET SideEffects(type)]

\* A handler in which a failed side call is thrown on like a core failure.
FailingStepWithSideEffects(f) ==
    IF f.core = "none" /\ f.side # {} THEN "remote" ELSE f.core

\* The step at which the handler call fails: the side calls sit in try/catch
\* blocks of their own that log and go on.
FailingStep(f) == f.core

\* ensureJob run without another caller in between: the tables it can leave.
EnsuredTables(table, type, order) ==
    LET matches == {id \in 1..Len(table) :
                      table[id].type = type /\ table[id].order = order}
    IN IF matches = {}
       THEN {Append(table, NewJob(type, order, DefaultMaxAttempts))}
       ELSE {IF table[id].status \in ResetStatuses("service")
             THEN [table EXCEPT ![id] = ReEnabled(table[id])]
             ELSE table : id \in matches}

\* A handler call seen from the worker: returned or thrown, and the orders
\* table, remote shop and jobs table it leaves.
Returned(os, rem, table) ==
    [ok |-> TRUE, err |-> ErrMissingOrderId, orders |-> os, remote |-> rem, jobs |-> table]

Thrown(e, os, rem, table) ==
    [ok |-> FALSE, err |-> e, orders |-> os, remote |-> rem, jobs |-> table]

Called(rem, n) == [rem EXCEPT !.calls = rem.calls + n]

\* A sync handler without its guard.
AlreadySyncedNever(order) == FALSE

\* syncOrderById: if (order.magento_order_id) return
AlreadySynced(order) == order.magento_order_id # 0

\* An invoice and a ship handler without their guards.
AlreadyDoneNever(at) == FALSE

\* invoiceOrderById: if (order.invoiced_at) return; shipOrderById: if
\* (order.shipped_at) return
AlreadyDone(at) == at # NullTime

\* A sync handler that schedules the invoice whatever the rule says.
SyncEnqueuesAlways(r) == TRUE

\* syncOrderById: if (channelRule.autoInvoice)
SyncEnqueues(r) == r.autoInvoice

\* An invoice handler that follows autoInvoice instead of autoShip.
InvoiceEnqueuesByAutoInvoice(r) == r.autoInvoice

\* invoiceOrderById: if (channelRule.autoShip)
InvoiceEnqueues(r) == r.autoShip

\* A handler that enqueues its successor before it writes the order row.
SuccessorBeforePersist(table, type, o) ==
    CHOOSE t \in EnsuredTables(table, type, o) : TRUE

\* The jobs table when the update of the order row rejects: the successor is
\* enqueued only after that update, so the table is as it was.
SuccessorAtPersist(table, type, o) == table

\* The handlers' first statement: the order row is read, and a missing row
\* makes the handler throw.
OrderNotFound(o) == PlainError("Order " \o ToString(o) \o " not found")

\* invoiceOrderById and shipOrderById for an order that was never synced.
NoRemoteOrder == PlainError("Order has no magento_order_id")

\* The worker's handler for a type it has no case for.
UnknownJobType(type) == PlainError("Unknown job type: " \o type)

\* syncOrderById(o): cart, items, addresses, payment, place (5 calls), the
\* increment id, the order row, customer and backdate, the comment, the rule
\* and the invoice job.
syncOrderById(o, f) ==
    LET order == orders[o]
        placed == [Called(remote, 5 + Cardinality(SyncSideEffects))
                     EXCEPT !.orders = remote.orders + 1]
        saved == [orders EXCEPT ![o] =
                    [order EXCEPT !.status = "SYNCED",
                                  !.magento_order_id = placed.orders,
                                  !.magento_increment_id =
                                      IF "getOrderById" \in f.side THEN NULL
                                      ELSE ToString(placed.orders)]]
    IN IF o \notin DOMAIN orders THEN {Thrown(OrderNotFound(o), orders, remote, jobs)}
       ELSE IF AlreadySynced(order) THEN {Returned(orders, remote, jobs)}
       ELSE IF FailingStep(f) = "remote"
       THEN {Thrown(e, orders, Called(remote, 1), jobs) : e \in HandlerErrors}
       ELSE IF FailingStep(f) = "persist"
       THEN {Thrown(StorageError, orders,
                    [Called(remote, 6) EXCEPT !.orders = remote.orders + 1],
                    SuccessorAtPersist(jobs, INVOICE, o))}
       ELSE IF FailingStep(f) = "enqueue"
       THEN {Thrown(StorageError, saved, placed, jobs)}
       ELSE {Returned(saved, placed, t) :
               t \in IF SyncEnqueues(rule) THEN EnsuredTables(jobs, INVOICE, o)
                      ELSE {jobs}}

\* invoiceOrderById(o): the invoice, its backdate, invoiced_at, then the rule
\* read again and the ship job, in a try/catch of their own.
invoiceOrderById(o, f) ==
    LET order == orders[o]
        created == [Called(remote, 2) EXCEPT !.invoices = remote.invoices + 1]
        marked == [orders EXCEPT ![o] =
                     [order EXCEPT !.magento_invoice_id = created.invoices,
                                   !.invoiced_at = now]]
    IN IF o \notin DOMAIN orders THEN {Thrown(OrderNotFound(o), orders, remote, jobs)}
       ELSE IF order.magento_order_id = 0
       THEN {Thrown(NoRemoteOrder, orders, remote, jobs)}
       ELSE IF AlreadyDone(order.invoiced_at) THEN {Returned(orders, remote, jobs)}
       ELSE IF FailingStep(f) = "remote"
       THEN {Thrown(e, orders, Called(remote, 1), jobs) : e \in HandlerErrors}
       ELSE IF FailingStep(f) = "persist"
       THEN {Thrown(StorageError, orders, created, SuccessorAtPersist(jobs, SHIP, o))}
       ELSE IF FailingStep(f) = "enqueue"
       THEN {Returned(marked, created, jobs)}
       ELSE {Returned(marked, created, t) :
               t \in IF InvoiceEnqueues(rule) THEN EnsuredTables(jobs, SHIP, o)
                      ELSE {jobs}}

\* shipOrderById(o): the shipment, its backdate, shipped_at.
shipOrderById(o, f) ==
    LET order == orders[o]
        created == [Called(remote, 2) EXCEPT !.shipments = remote.shipments + 1]
        marked == [orders EXCEPT ![o] =
                     [order EXCEPT !.magento_shipment_id = created.shipments,
                                   !.shipped_at = now]]
    IN IF o \notin DOMAIN orders THEN {Thrown(OrderNotFound(o), orders, remote, jobs)}
       ELSE IF order.magento_order_id = 0
       THEN {Thrown(NoRemoteOrder, orders, remote, jobs)}
       ELSE IF AlreadyDone(order.shipped_at) THEN {Returned(orders, remote, jobs)}
       ELSE IF FailingStep(f) = "remote"
       THEN {Thrown(e, orders, Called(remote, 1), jobs) : e \in HandlerErrors}
       ELSE IF FailingStep(f) = "persist"
       THEN {Thrown(StorageError, orders, created, jobs)}
       ELSE {Returned(marked, created, jobs)}

\* The handler the worker passes to runJobWithRetry, by job type.
HandlerCalls(row, f) ==
    IF row.order = 0 THEN {Thrown(ErrMissingOrderId, orders, remote, jobs)}
    ELSE IF row.type = SYNC THEN syncOrderById(row.order, f)
    ELSE IF row.type = INVOICE THEN invoiceOrderById(row.order, f)
    ELSE IF row.type = SHIP THEN shipOrderById(row.order, f)
    ELSE {Thrown(UnknownJobType(row.type), orders, remote, jobs)}

\* One runner of the pool with the workflow handlers: the handler runs,
\* runJobWithRetry writes the outcome, runNext takes the next job.
runNextHandles(w, snap, f, call) ==
    /\ snap \in active[w]
    /\ ~Locked(snap.id)
    /\ f \in Faults(jobs[snap.id].type)
    /\ call \in HandlerCalls(jobs[snap.id], f)
    /\ jobs' = [call.jobs EXCEPT ![snap.id] =
                  RunnerWrite(build, call.jobs[snap.id], snap,
                              [ok |-> call.ok, err |-> call.err])]
    /\ orders' = call.orders
    /\ remote' = call.remote
    /\ LET n == runNextTakes(queue[w])
       IN /\ active' = [active EXCEPT ![w] =
                          (active[w] \ {snap}) \cup {queue[w][i] : i \in 1..n}]
          /\ queue' = [queue EXCEPT ![w] = SubSeq(queue[w], n + 1, Len(queue[w]))]
    /\ UNCHANGED <<build, now, tx, op, imp, issued, rule, worker>>

\* PUT of a channel rule: what resolveChannelRule returns from now on.
upsertChannelRule(r) ==
    /\ rule # r
    /\ rule' = r
    /\ UNCHANGED <<build, now, jobs, tx, queue, active, op, imp, issued, orders, remote, worker>>

\* One order from its import to its shipment: the batch worker with the
\* three handlers, the channel rule changing under it, and the operator
\* retrying jobs.
InitFlow ==
    /\ build = "exponential"
    /\ now = 0
    /\ jobs = <<NewJob(SYNC, 1, DefaultMaxAttempts)>>
    /\ tx = [w \in Workers |-> IdleTx]
    /\ queue = [w \in Workers |-> <<>>]
    /\ active = [w \in Workers |-> {}]
    /\ op = [c \in Clients |-> IdleOp]
    /\ imp = IdleImport
    /\ issued = [claims |-> 0, requests |-> 0, imports |-> 0]
    /\ orders = [o \in Orders |-> NewOrder]
    /\ remote = NoRemote
    /\ rule \in Rules
    /\ worker = WorkerUp

NextFlow ==
    \/ processBatchPolls(BatchWorker)
    \/ processBatchStarts(BatchWorker)
    \/ \E snap \in active[BatchWorker] :
          \E f \in Faults(jobs[snap.id].type) :
             \E call \in HandlerCalls(jobs[snap.id], f) :
                runNextHandles(BatchWorker, snap, f, call)
    \/ \E r \in Rules : upsertChannelRule(r)
    \/ \E id \in JobIds : retryJob("c1", id)
    \/ ensureReset("c1")
    \/ retryClear("c1")

SpecFlow == InitFlow /\ [][NextFlow]_vars

\* ------------------------------------------------------------ shutdown
\* db.destroy() and process.exit() with a getDueJobs call of the loop still in
\* flight: its transaction was rolled back, or it committed and the process
\* ended with the rows RUNNING (a job dispatched by then finds the pool
\* destroyed when runJobWithRetry writes its outcome).
ExitedWith(committed) ==
    /\ committed => (tx[SlotWorker].pc = "selected" /\ Len(tx[SlotWorker].rows) > 0)
    /\ jobs' = IF committed THEN MarkedRunning(tx[SlotWorker].rows) ELSE jobs
    /\ tx' = [tx EXCEPT ![SlotWorker] = IdleTx]

\* SIGTERM / SIGINT: shutdown() awaits signalShutdown(), which sets
\* isShuttingDown and comes back at once when activeJobsCount is 0; shutdown()
\* then destroys the pool and exits.  Otherwise signalShutdown waits.
signalShutdown(committed) ==
    /\ worker.pc = "up"
    /\ IF worker.activeJobsCount > 0
       THEN /\ ~committed
            /\ worker' = [worker EXCEPT !.isShuttingDown = TRUE, !.pc = "draining"]
            /\ UNCHANGED <<jobs, tx>>
       ELSE /\ ExitedWith(committed)
            /\ worker' = [worker EXCEPT !.isShuttingDown = TRUE, !.pc = "closed"]
    /\ UNCHANGED <<build, now, queue, active, op, imp, issued, orders, remote, rule>>

\* signalShutdown's wait loop finds activeJobsCount 0 at one of its looks,
\* every 500 ms; shutdown() destroys the pool and exits.
shutdownCloses(committed) ==
    /\ worker.pc = "draining"
    /\ worker.activeJobsCount = 0
    /\ ExitedWith(committed)
    /\ worker' = [worker EXCEPT !.pc = "closed"]
    /\ UNCHANGED <<build, now, queue, active, op, imp, issued, orders, remote, rule>>

\* What the handler of processJob comes back with: the workflow handler's
\* outcome, or the refusal of a worker that is shutting down.
SlotHandlerResults(row) ==
    HandlerResults(row) \cup {[ok |-> FALSE, err |-> ShuttingDown]}

\* The server process with its slot worker being shut down, beside a worker
\* process that stays up and an operator.  The clock stands still: a RETRY job
\* stays in its backoff.
InitShutdown ==
    /\ build = "exponential"
    /\ now = 0
    /\ jobs \in {[i \in 1..n |-> NewJob(SYNC, 1, DefaultMaxAttempts)] :
                   n \in 1..MaxShutdownJobs}
    /\ tx = [w \in Workers |-> IdleTx]
    /\ queue = [w \in Workers |-> <<>>]
    /\ active = [w \in Workers |-> {}]
    /\ op = [c \in Clients |-> IdleOp]
    /\ imp = IdleImport
    /\ issued = [claims |-> 0, requests |-> 0, imports |-> 0]
    /\ NoWorkflowYet
    /\ worker = WorkerUp

NextShutdown ==
    \/ slotLoopPolls(SlotWorker)
    \/ slotLoopStarts(SlotWorker)
    \/ \E snap \in active[SlotWorker] :
          \E result \in SlotHandlerResults(jobs[snap.id]) :
             processJob(SlotWorker, snap, result)
    \/ \E committed \in BOOLEAN : signalShutdown(committed)
    \/ \E committed \in BOOLEAN : shutdownCloses(committed)
    \/ processBatchPolls(BatchWorker)
    \/ processBatchStarts(BatchWorker)
    \/ \E snap \in active[BatchWorker] :
          \E result \in HandlerResults(jobs[snap.id]) : runNext(BatchWorker, snap, result)
    \/ \E order \in Orders : createJobIfNotExists("c1", "service", SYNC, order)
    \/ \E id \in JobIds : retryJob("c1", id)
    \/ ensureReset("c1")
    \/ retryClear("c1")

SpecShutdown == InitShutdown /\ [][NextShutdown]_vars

\* One job with a budget of three attempts that failed, two callers that
\* enqueue it again and two worker processes of the batch loop, with time
\* passing.
InitAttempts ==
    /\ build \in Builds
    /\ now = 0
    /\ jobs = <<[NewJob(SYNC, 1, RepositoryMaxAttempts)
                   EXCEPT !.status = "FAILED", !.attempts = 1,
                          !.last_error = ErrNotFound.message]>>
    /\ tx = [w \in Workers |-> IdleTx]
    /\ queue = [w \in Workers |-> <<>>]
    /\ active = [w \in Workers |-> {}]
    /\ op = [c \in Clients |-> IdleOp]
    /\ imp = IdleImport
    /\ issued = [claims |-> 0, requests |-> 0, imports |-> 0]
    /\ NoWorkflowYet
    /\ worker = WorkerUp

NextAttempts ==
    \/ processBatchPolls(BatchWorker)
    \/ processBatchStarts(BatchWorker)
    \/ \E snap \in active[BatchWorker] :
          \E result \in HandlerResults(jobs[snap.id]) : runNext(BatchWorker, snap, result)
    \/ processBatchPolls(SlotWorker)
    \/ processBatchStarts(SlotWorker)
    \/ \E snap \in active[SlotWorker] :
          \E result \in HandlerResults(jobs[snap.id]) : runNext(SlotWorker, snap, result)
    \/ \E c \in Clients : createJobIfNotExists(c, "service", SYNC, 1)
    \/ \E c \in Clients : ensureReset(c)
    \/ TickRun

SpecAttempts == InitAttempts /\ [][NextAttempts]_vars

\* Jobs the worker has no work for: no order_id in the payload (the
\* IMPORT_ORDERS row, or an order job inserted without one), a type without a
\* case in the handler, an order_id without a row in orders.
UNKNOWN_TYPE == "REFUND_MAGENTO_ORDER"
MissingOrder == Cardinality(Orders) + 1

MalformedJobs ==
    <<NewJob(IMPORT_JOB_TYPE, 0, ImportMaxAttempts),
      NewJob(SYNC, 0, DefaultMaxAttempts),
      NewJob(UNKNOWN_TYPE, 1, DefaultMaxAttempts),
      NewJob(SYNC, MissingOrder, DefaultMaxAttempts),
      NewJob(INVOICE, MissingOrder, DefaultMaxAttempts),
      NewJob(SHIP, MissingOrder, DefaultMaxAttempts)>>

InitMalformed ==
    /\ build \in Builds
    /\ now = 0
    /\ jobs \in {MalformedJobs \o <<NewJob(SYNC, 1, DefaultMaxAttempts)>>,
                  <<NewJob(SYNC, 1, DefaultMaxAttempts)>> \o MalformedJobs}
    /\ tx = [w \in Workers |-> IdleTx]
    /\ queue = [w \in Workers |-> <<>>]
    /\ active = [w \in Workers |-> {}]
    /\ op = [c \in Clients |-> IdleOp]
    /\ imp = IdleImport
    /\ issued = [claims |-> 0, requests |-> 0, imports |-> 0]
    /\ NoWorkflowYet
    /\ worker = WorkerUp

NextMalformed ==
    \/ processBatchPolls(BatchWorker)
    \/ processBatchStarts(BatchWorker)
    \/ \E snap \in active[BatchWorker] :
          \E f \in Faults(jobs[snap.id].type) :
             \E call \in HandlerCalls(jobs[snap.id], f) :
                runNextHandles(BatchWorker, snap, f, call)

SpecMalformed == InitMalformed /\ [][NextMalformed]_vars

\* The same order under channel rules that keep autoInvoice on.
InitAuto == InitFlow /\ rule.autoInvoice

NextAuto ==
    \/ processBatchPolls(BatchWorker)
    \/ processBatchStarts(BatchWorker)
    \/ \E snap \in active[BatchWorker] :
          \E f \in Faults(jobs[snap.id].type) :
             \E call \in HandlerCalls(jobs[snap.id], f) :
                runNextHandles(BatchWorker, snap, f, call)
    \/ \E r \in Rules : r.autoInvoice /\ upsertChannelRule(r)
    \/ \E id \in JobIds : retryJob("c1", id)
    \/ ensureReset("c1")
    \/ retryClear("c1")

SpecAuto == InitAuto /\ [][NextAuto]_vars

\* The operator's retry endpoint on the tables the worker and the enqueue
\* calls leave: one SYNC job of order 1 in any status, or two of them, as two
\* concurrent createSyncJobIfNotExists calls inserted them and a worker run
\* left them.
RetrySeedJobs ==
    LET fresh == NewJob(SYNC, 1, DefaultMaxAttempts)
    IN SeedJobs \cup {[fresh EXCEPT !.status = "RETRY", !.attempts = 1,
                                    !.next_run_at = BackoffSeconds,
                                    !.last_error = ErrUnavailable.message]}

InitRetry ==
    /\ build = "exponential"
    /\ now = 0
    /\ jobs \in {<<a>> : a \in RetrySeedJobs}
                 \cup {<<a, b>> : a \in RetrySeedJobs, b \in RetrySeedJobs}
    /\ tx = [w \in Workers |-> IdleTx]
    /\ queue = [w \in Workers |-> <<>>]
    /\ active = [w \in Workers |-> {}]
    /\ op = [c \in Clients |-> IdleOp]
    /\ imp = IdleImport
    /\ issued = [claims |-> 0, requests |-> 0, imports |-> 0]
    /\ NoWorkflowYet
    /\ worker = WorkerUp

NextRetry ==
    \/ \E id \in JobIds : retryJob("c1", id)
    \/ ensureReset("c1")
    \/ retryClear("c1")
    \/ \E limit \in 1..MaxLimit : ClaimSelect("w1", "service", limit)
    \/ ClaimCommit("w1")
    \/ \E snap \in active["w1"] :
          \E result \in HandlerResults(jobs[snap.id]) : runJobWithRetry("w1", snap, result)
    \/ Tick

SpecRetry == InitRetry /\ [][NextRetry]_vars

\* jobsRepository.claimDueJobs up to the awaited select.
claimDueJobsSelect(w, limit) ==
    /\ tx[w].pc = "idle"
    /\ LET ids == SelectDue("repository", limit)
       IN tx' = [tx EXCEPT ![w] =
                   [pc |-> "selected", limit |-> limit,
                    rows |-> [i \in 1..Len(ids) |->
                                [id |-> ids[i], attempts |-> jobs[ids[i]].attempts]]]]
    /\ UNCHANGED <<build, now, jobs, queue, active, op, imp, issued, orders, remote, rule, worker>>

\* One worker that polls for ever, with either store's claim, while a caller
\* enqueues newer jobs and time passes.
InitPoll ==
    /\ build = "exponential"
    /\ now = 0
    /\ jobs \in UNION {SeedTablesOfLength(n) : n \in 1..MaxPollRows}
    /\ tx = [w \in Workers |-> IdleTx]
    /\ queue = [w \in Workers |-> <<>>]
    /\ active = [w \in Workers |-> {}]
    /\ op = [c \in Clients |-> IdleOp]
    /\ imp = IdleImport
    /\ issued = [claims |-> 0, requests |-> 0, imports |-> 0]
    /\ NoWorkflowYet
    /\ worker = WorkerUp

PollLoopStep ==
    \/ \E limit \in 1..MaxLimit :
          /\ queue[BatchWorker] = <<>>
          /\ active[BatchWorker] = {}
          /\ \/ getDueJobsSelect(BatchWorker, limit)
             \/ claimDueJobsSelect(BatchWorker, limit)
    \/ processBatchStarts(BatchWorker)

PollRunnerStep ==
    \E snap \in active[BatchWorker] :
       \E result \in HandlerResults(jobs[snap.id]) : runNext(BatchWorker, snap, result)

NextPoll ==
    \/ PollLoopStep
    \/ PollRunnerStep
    \/ \E type \in EnqueueTypes, order \in Orders :
          createJobIfNotExists("c1", "service", type, order)
    \/ ensureReset("c1")
    \/ ensureInsert("c1")
    \/ Tick

\* The loop keeps polling and every handler call settles.
SpecPoll ==
    /\ InitPoll
    /\ [][NextPoll]_vars
    /\ WF_vars(PollLoopStep)
    /\ WF_vars(PollRunnerStep)

\* ------------------------------------------------------------ properties
TxIds(w) == {tx[w].rows[i].id : i \in 1..Len(tx[w].rows)}

OpenTx(w) == tx[w].pc = "selected"

\* A row that a claim may take: PENDING or RETRY, with no or an elapsed
\* next_run_at.
Claimable(row) ==
    /\ row.status \in {"PENDING", "RETRY"}
    /\ (row.next_run_at = NullTime \/ row.next_run_at <= now)

RECURSIVE SumOfLimits(_)
SumOfLimits(W) ==
    IF W = {} THEN 0
    ELSE LET w == CHOOSE x \in W : TRUE
         IN tx[w].limit + SumOfLimits(W \ {w})

Holders(id) == {<<w, snap>> \in Workers \X UNION {active[w] : w \in Workers} :
                  snap \in active[w] /\ snap.id = id}

Matching(type, order) ==
    {id \in JobIds : jobs[id].type = type /\ jobs[id].order = order}

\* C1: no job is held by two claim transactions at once, and a job a claim
\* holds is not RUNNING: a job that a call returned and that is still RUNNING
\* is not selected by any other call.
C1_AtMostOneClaimant ==
    /\ \A w1, w2 \in Workers : w1 # w2 => TxIds(w1) \cap TxIds(w2) = {}
    /\ \A w \in Workers : \A id \in TxIds(w) : jobs[id].status # "RUNNING"

\* Two claims are open at once; the second has skipped the row the first
\* holds and taken a later one.
C1_Witness ==
    \E w1, w2 \in Workers :
        /\ w1 # w2 /\ OpenTx(w1) /\ OpenTx(w2)
        /\ TxIds(w1) # {} /\ TxIds(w2) # {}
        /\ \E a \in TxIds(w1), b \in TxIds(w2) : a < b

\* C2: while all workers' claims are open against a table nobody else
\* writes, the rows they hold are min(M, L1 + ... + LN) in number, M being the
\* due rows of the table and Li the limits.
C2_UnionCoversMin ==
    (\A w \in Workers : OpenTx(w)) =>
        Cardinality(UNION {TxIds(w) : w \in Workers})
            = Min(Cardinality({id \in JobIds : Claimable(jobs[id])}), SumOfLimits(Workers))

\* Three due rows, limits 2 and 2: one call took two rows, the other the
\* remaining one.
C2_Witness ==
    /\ \A w \in Workers : OpenTx(w) /\ TxIds(w) # {}
    /\ Cardinality({id \in JobIds : Claimable(jobs[id])}) = 3
    /\ SumOfLimits(Workers) = 4
    /\ Cardinality(UNION {TxIds(w) : w \in Workers}) = 3

\* C3 (as claimed): at most one handler execution is in progress for a job id.
C3_OneHandlerPerJob ==
    \A id \in JobIds : Cardinality(Holders(id)) <= 1

\* C4 (as claimed): a job's stored attempts changes only by a claim, which
\* adds one while setting RUNNING, or by a re-enable, which sets it to 0 with
\* PENDING; no other write changes it.
C4_AttemptsOnlyByClaimOrReEnable ==
    [][\A id \in JobIds :
          jobs'[id].attempts # jobs[id].attempts =>
              \/ /\ jobs'[id].attempts = jobs[id].attempts + 1
                 /\ jobs'[id].status = "RUNNING"
                 /\ Locked(id)
              \/ /\ jobs'[id].attempts = 0
                 /\ jobs'[id].status = "PENDING"]_vars

\* C5 (as claimed): the status of a DONE or FAILED job changes only by a
\* re-enable, which makes it PENDING with attempts 0 and no last_error and
\* no next_run_at.
C5_TerminalUntilReEnabled ==
    [][\A id \in JobIds :
          (jobs[id].status \in {"DONE", "FAILED"} /\ jobs'[id].status # jobs[id].status) =>
              /\ jobs'[id].status = "PENDING"
              /\ jobs'[id].attempts = 0
              /\ jobs'[id].last_error = NULL
              /\ jobs'[id].next_run_at = NullTime]_vars

\* C6 (as claimed): at most one job row for each (type, order_id) of the
\* SYNC / INVOICE / SHIP types.
C6_OneRowPerTypeAndOrder ==
    \A i, j \in JobIds :
        (i # j /\ jobs[i].type \in OrderJobTypes) =>
            ~(jobs[i].type = jobs[j].type /\ jobs[i].order = jobs[j].order)

\* C7: a create*JobIfNotExists call for an order whose job of the type is
\* PENDING, RUNNING or RETRY ends with its lookup: it changes no row, inserts
\* none, and leaves no write to follow.
C7_NoOpOnLiveJob ==
    [][\A c \in Clients, impl \in Impls, type \in OrderJobTypes, order \in Orders :
        \A via \in 0..Len(jobs) :
          ( /\ ensureRead(c, impl, type, order, via)
            /\ Matching(type, order) # {}
            /\ \A id \in Matching(type, order) :
                  jobs[id].status \in {"PENDING", "RUNNING", "RETRY"} )
          => ( /\ jobs' = jobs
               /\ op'[c].pc \in {"idle", "clear"}
               /\ op'[c].target = 0 )]_vars

\* The operator asked to retry a RUNNING job: the create call inside the
\* endpoint has returned, the job is as it was.
C7_Witness ==
    \E c \in Clients :
        /\ op[c].pc = "clear"
        /\ op[c].seen \in {"PENDING", "RUNNING", "RETRY"}
        /\ jobs[op[c].via].status = "RUNNING"
        /\ jobs[op[c].via].attempts = 1

\* C8 (as claimed): a create*JobIfNotExists call for an order whose job of the
\* type is DONE or FAILED goes on to re-enable that row, in every
\* implementation; the re-enable makes it PENDING with attempts 0, no
\* last_error and no next_run_at and inserts nothing; a call that finds no row
\* inserts one PENDING row with attempts 0.
C8_ReEnableOnTerminalJob ==
    [][\A c \in Clients :
        /\ \A impl \in Impls, type \in OrderJobTypes, order \in Orders :
             \A via \in 0..Len(jobs) :
               ( /\ ensureRead(c, impl, type, order, via)
                 /\ Matching(type, order) # {}
                 /\ \A id \in Matching(type, order) : jobs[id].status \in {"DONE", "FAILED"} )
               => ( /\ op'[c].pc = "reset"
                    /\ op'[c].target \in Matching(type, order) )
        /\ ensureReset(c) =>
             /\ Len(jobs') = Len(jobs)
             /\ \A id \in JobIds :
                  jobs'[id] = IF id = op[c].target
                              THEN [jobs[id] EXCEPT !.status = "PENDING", !.attempts = 0,
                                                    !.last_error = NULL,
                                                    !.next_run_at = NullTime]
                              ELSE jobs[id]
        /\ ensureInsert(c) =>
             /\ Len(jobs') = Len(jobs) + 1
             /\ \A id \in JobIds : jobs'[id] = jobs[id]
             /\ jobs'[Len(jobs) + 1].status = "PENDING"
             /\ jobs'[Len(jobs) + 1].attempts = 0
             /\ jobs'[Len(jobs) + 1].type = op[c].type
             /\ jobs'[Len(jobs) + 1].order = op[c].order]_vars

\* C9: a claim takes at most `limit` rows, each PENDING or RETRY with no or an
\* elapsed next_run_at when selected; a claim that selected nothing returns
\* nothing and leaves every row as it was.
C9_ClaimsOnlyDueJobs ==
    [][\A w \in Workers :
        /\ (~OpenTx(w) /\ tx'[w].pc = "selected") =>
             /\ Len(tx'[w].rows) <= tx'[w].limit
             /\ \A i \in 1..Len(tx'[w].rows) : Claimable(jobs[tx'[w].rows[i].id])
             /\ (\A id \in JobIds : ~Claimable(jobs[id])) => tx'[w].rows = <<>>
        /\ (OpenTx(w) /\ tx'[w].pc = "idle") =>
             /\ \A i \in 1..Len(tx[w].rows) :
                  /\ Claimable(jobs[tx[w].rows[i].id])
                  /\ jobs'[tx[w].rows[i].id].status = "RUNNING"
             /\ tx[w].rows = <<>> =>
                  (jobs' = jobs /\ queue' = queue /\ active' = active)]_vars

\* A claim has filled its limit and has left alone a RETRY row whose backoff
\* has not elapsed.
C9_Witness ==
    \E w \in Workers :
        /\ OpenTx(w) /\ tx[w].limit = Len(tx[w].rows) /\ TxIds(w) # {}
        /\ \E id \in JobIds \ TxIds(w) :
              jobs[id].status = "RETRY" /\ jobs[id].next_run_at > now

\* C10: the rows a claim takes are in ascending id order and are the due,
\* unlocked rows with the smallest ids: every due, unlocked row it leaves has a
\* larger id than every row it takes.
C10_SmallestIdsFirst ==
    [][\A w \in Workers :
        (~OpenTx(w) /\ tx'[w].pc = "selected") =>
            /\ \A i, j \in 1..Len(tx'[w].rows) :
                 i < j => tx'[w].rows[i].id < tx'[w].rows[j].id
            /\ \A i \in 1..Len(tx'[w].rows) :
                 \A k \in JobIds :
                   ( /\ Claimable(jobs[k])
                     /\ ~Locked(k)
                     /\ \A j \in 1..Len(tx'[w].rows) : tx'[w].rows[j].id # k )
                   => tx'[w].rows[i].id < k]_vars

\* A claim holds row 1 and has left the due row 2 to others.
C10_Witness ==
    \E w \in Workers :
        /\ OpenTx(w) /\ TxIds(w) = {1}
        /\ Len(jobs) >= 2 /\ Claimable(jobs[2]) /\ ~Locked(2)

\* A step of SpecRun in which runJobWithRetry settles snap with result; the
\* message written tells most outcomes apart.
Settles(snap, result) ==
    /\ jobs'[snap.id].last_error = (IF result.ok THEN NULL ELSE result.err.message)
    /\ runJobSettles("w1", JOBS_CONCURRENCY, snap, result)

\* A step in which the handler threw err on an attempt that is not the last.
ThrowsBeforeLast(snap, result) ==
    /\ Settles(snap, result)
    /\ ~result.ok
    /\ snap.attempts < jobs[snap.id].max_attempts

Snapshots == UNION {active[w] : w \in Workers}

Outcomes == AnyHandlerResults(NewJob(SYNC, 1, DefaultMaxAttempts))

\* C12: an error with response status 503 or 429, with status 400 and a
\* message containing "deadlock found when trying to get lock", or without
\* response is classified transient (the job goes to RETRY while attempts are
\* left); status 404, and status 400 with an unrelated message, are classified
\* permanent (the job goes to FAILED).
C12_ClassifierTable ==
    [][\A snap \in Snapshots : \A result \in Outcomes :
        ThrowsBeforeLast(snap, result) =>
            LET e == result.err
            IN /\ ( /\ e.axios
                    /\ \/ e.status \in {503, 429, 0}
                       \/ /\ e.status = 400
                          /\ Includes(ClassifiedMessage(e),
                                      "deadlock found when trying to get lock") )
                  => jobs'[snap.id].status = "RETRY"
               /\ ( /\ e.axios
                    /\ \/ e.status = 404
                       \/ /\ e.status = 400
                          /\ e.data \in {"", "The requested qty is not available"} )
                  => jobs'[snap.id].status = "FAILED"]_vars

\* A rate-limited call has been put back for a retry.
C12_Witness ==
    \E id \in JobIds :
        /\ jobs[id].status = "RETRY"
        /\ jobs[id].last_error = "Request failed with status code 429"

\* C13 (as claimed): every error a handler throws for which no response was
\* received (no HTTP status) is classified transient: the job goes to RETRY,
\* not to FAILED, while attempts are left.
C13_NoResponseIsTransient ==
    [][\A snap \in Snapshots : \A result \in Outcomes :
        (ThrowsBeforeLast(snap, result) /\ result.err.status = 0)
            => jobs'[snap.id].status = "RETRY"]_vars

\* The contention phrases as the claim lists them.
C14_ClaimedPhrases ==
    {"deadlock", "serialization failure", "could not save source item",
     "could not be saved"}

\* C14 (as claimed): an error with a 4xx status other than 408 and 429 is
\* transient exactly when its lower-cased message contains one of the claimed
\* contention phrases; an error with status 500 or above is transient.
C14_Every4xxByMessage ==
    [][\A snap \in Snapshots : \A result \in Outcomes :
        (ThrowsBeforeLast(snap, result) /\ result.err.axios) =>
            LET e == result.err
            IN /\ (e.status \in 400..499 /\ e.status \notin {408, 429}) =>
                     ( jobs'[snap.id].status = "RETRY"
                       <=> \E p \in C14_ClaimedPhrases : Includes(ClassifiedMessage(e), p) )
               /\ e.status >= 500 => jobs'[snap.id].status = "RETRY"]_vars

\* The phrases of the two versions of the classifier.
C14_Phrases(b) ==
    IF b = "linear"
    THEN {"deadlock found when trying to get lock", "serialization failure: 1213",
          "could not save source item", "the shipment couldn't be saved"}
    ELSE {"deadlock found", "serialization failure", "lock wait timeout",
          "could not save source item", "the shipment couldn't be saved"}

\* C14 (amended): an error with status 400 is transient exactly when its
\* lower-cased message contains one of the phrases of the deployed version;
\* every other 4xx status except 408 and 429 is permanent whatever the
\* message; an error with status 500 or above is transient.
C14_Status400ByMessage ==
    [][\A snap \in Snapshots : \A result \in Outcomes :
        (ThrowsBeforeLast(snap, result) /\ result.err.axios) =>
            LET e == result.err
            IN /\ e.status = 400 =>
                     ( jobs'[snap.id].status = "RETRY"
                       <=> \E p \in C14_Phrases(build) : Includes(ClassifiedMessage(e), p) )
               /\ (e.status \in 401..499 /\ e.status \notin {408, 429}) =>
                     jobs'[snap.id].status = "FAILED"
               /\ e.status >= 500 => jobs'[snap.id].status = "RETRY"]_vars

\* A call answered 400 has been put back for a retry.
C14_Witness ==
    \E id \in JobIds :
        /\ jobs[id].status = "RETRY"
        /\ jobs[id].last_error = "Request failed with status code 400"

C16_RetryExhaustion ==
    [][/\ \A w \in Workers :
            (OpenTx(w) /\ tx'[w].pc = "idle") =>
                \A id \in TxIds(w) :
                    /\ jobs[id].status \in {"PENDING", "RETRY"}
                    /\ jobs[id].attempts < jobs[id].max_attempts
                    /\ jobs'[id].attempts = jobs[id].attempts + 1
       /\ \A snap \in Snapshots : \A result \in Outcomes :
            (Settles(snap, result) /\ ~result.ok /\ isTransientError(build, result.err)) =>
                /\ jobs'[snap.id].attempts = snap.attempts
                /\ jobs'[snap.id].status =
                      IF snap.attempts < jobs[snap.id].max_attempts THEN "RETRY" ELSE "FAILED"
       /\ \A id \in JobIds :
            jobs[id].status = "FAILED" => jobs'[id] = jobs[id]]_vars

\* The job with max_attempts 3 has failed on its third claim with a transient
\* error, its backoff time is long past, and a further poll has found nothing.
C16_Witness ==
    /\ OpenTx("w1") /\ tx["w1"].rows = <<>>
    /\ \E id \in JobIds :
          /\ jobs[id].max_attempts = 3
          /\ jobs[id].attempts = 3
          /\ jobs[id].status = "FAILED"
          /\ jobs[id].last_error = "Request failed with status code 503"
          /\ jobs[id].next_run_at # NullTime
          /\ jobs[id].next_run_at < now

\* C17: the delay of every scheduled retry is positive and at least the delay
\* of every lower attempt number.
C17_BackoffMonotone ==
    [][\A snap \in Snapshots : \A result \in Outcomes :
        (Settles(snap, result) /\ jobs'[snap.id].status = "RETRY") =>
            LET delay == jobs'[snap.id].next_run_at - now
            IN /\ delay > 0
               /\ snap.attempts \in 1..(jobs[snap.id].max_attempts - 1)
               /\ \A a \in 1..snap.attempts : RetryDelay(build, a) <= delay]_vars

\* A retry scheduled on the fourth attempt, later than the third's.
C17_Witness ==
    \E id \in JobIds :
        /\ jobs[id].status = "RETRY"
        /\ jobs[id].attempts = 4
        /\ jobs[id].next_run_at - now > RetryDelay(build, 3)

\* C18: a runJobWithRetry call ends with its one handler call: the job leaves
\* the handlers in progress and RUNNING whatever the outcome, and a handler
\* call begins only for a job a claim has just returned or that waits in the
\* batch, RUNNING with the attempts of that claim.
C18_OneHandlerCallPerClaim ==
    [][/\ \A snap \in Snapshots : \A result \in Outcomes :
            Settles(snap, result) =>
                /\ snap \notin active'["w1"]
                /\ jobs'[snap.id].status # "RUNNING"
       /\ \A w \in Workers :
            \A snap \in active'[w] \ active[w] :
                /\ \/ /\ OpenTx(w)
                      /\ \E i \in 1..Len(tx[w].rows) :
                            /\ tx[w].rows[i].id = snap.id
                            /\ tx[w].rows[i].attempts + 1 = snap.attempts
                   \/ \E i \in 1..Len(queue[w]) : queue[w][i] = snap
                /\ jobs'[snap.id].status = "RUNNING"
                /\ jobs'[snap.id].attempts = snap.attempts]_vars

\* The second handler call of a job, after its second claim.
C18_Witness ==
    \E snap \in active["w1"] :
        /\ snap.attempts = 2
        /\ jobs[snap.id].status = "RUNNING"
        /\ jobs[snap.id].attempts = 2

\* The jobs a worker holds: handed to a runner, or waiting in its batch.
Queued(w) == {queue[w][i] : i \in 1..Len(queue[w])}

Held(w) == active[w] \cup Queued(w)

\* C11: a storage error inside getDueJobs undoes the whole claim: the step
\* that brings the error to the loop's catch changes no job (none turns
\* RUNNING, no attempts go up), hands no job to the worker and gives up the
\* rows the call had locked; every RUNNING job is one that a successful call
\* returned; and the next thing the worker does is end its sleep and stand
\* ready to poll again, starting nothing in between.
C11_FailedClaimRollsBack ==
    /\ [](\A id \in JobIds :
            jobs[id].status = "RUNNING" =>
               \E w \in Workers : \E snap \in Held(w) :
                  snap.id = id /\ snap.attempts = jobs[id].attempts)
    /\ [][\A w \in Workers :
            /\ (tx[w].pc # "caught" /\ tx'[w].pc = "caught") =>
                  /\ jobs' = jobs
                  /\ active' = active
                  /\ queue' = queue
                  /\ tx'[w].rows = <<>>
            /\ tx[w].pc = "caught" =>
                  /\ tx'[w] \in {tx[w], IdleTx}
                  /\ active'[w] \subseteq active[w]
                  /\ queue'[w] = queue[w]]_vars

\* The batch worker's call has failed with every job still new and due, and
\* the slot worker's call selects some of them.
C11_Witness ==
    /\ tx[BatchWorker].pc = "caught"
    /\ tx[SlotWorker].pc = "selected"
    /\ TxIds(SlotWorker) # {}
    /\ \A id \in JobIds : jobs[id].status = "PENDING" /\ jobs[id].attempts = 0

\* C19: in each worker process the handlers executing at once never exceed
\* its concurrency setting, in the batch pool and in the slot loop.
C19_BoundedHandlers ==
    /\ Cardinality(active[BatchWorker]) <= BatchConcurrency
    /\ Cardinality(active[SlotWorker]) <= SlotConcurrency

\* Both workers run as many handlers as their setting allows.
C19_Witness ==
    /\ Cardinality(active[BatchWorker]) = BatchConcurrency
    /\ Cardinality(active[SlotWorker]) = SlotConcurrency

\* C20: in processBatch every job of the batch goes to runJobWithRetry once:
\* a job in the pool or in the queue is still RUNNING with the attempts of its
\* claim, never both in the queue and with a runner, and the queue is never
\* left without a runner; a job reaches a runner only from the returned batch
\* or from the head of the queue; a runner that finishes with the queue
\* non-empty starts the head of the queue in the same step, whatever the
\* other runners do, and its finished job does not come back; processBatch
\* is called again only when the queue is empty and no runner is left.
C20_PoolRunsEveryJobOnce ==
    /\ [](\A snap \in Held(BatchWorker) :
            /\ jobs[snap.id].status = "RUNNING"
            /\ jobs[snap.id].attempts = snap.attempts)
    /\ [](active[BatchWorker] \cap Queued(BatchWorker) = {})
    /\ [](Cardinality(Queued(BatchWorker)) = Len(queue[BatchWorker]))
    /\ [](queue[BatchWorker] # <<>> => active[BatchWorker] # {})
    /\ [][\A snap \in active'[BatchWorker] \ active[BatchWorker] :
            \/ tx[BatchWorker].pc = "selected" /\ snap.id \in TxIds(BatchWorker)
            \/ queue[BatchWorker] # <<>> /\ snap = Head(queue[BatchWorker])]_vars
    /\ [][\A snap \in active[BatchWorker] \ active'[BatchWorker] :
            /\ snap \notin Queued(BatchWorker)'
            /\ jobs'[snap.id].status # "RUNNING"
            /\ active[BatchWorker] \ {snap} \subseteq active'[BatchWorker]
            /\ queue[BatchWorker] # <<>> =>
                  /\ Head(queue[BatchWorker]) \in active'[BatchWorker]
                  /\ queue'[BatchWorker] = Tail(queue[BatchWorker])]_vars
    /\ [][(tx[BatchWorker].pc = "idle" /\ tx'[BatchWorker].pc = "selected") =>
             Held(BatchWorker) = {}]_vars

\* One job of a batch of three is done, the job that waited in the queue has
\* a runner, and the other runner is still at its first job.
C20_Witness ==
    /\ Len(jobs) = 3
    /\ jobs[1].status = "DONE"
    /\ {snap.id : snap \in active[BatchWorker]} = {2, 3}
    /\ queue[BatchWorker] = <<>>
    /\ active[SlotWorker] = {}
    /\ tx[SlotWorker].pc = "idle"

\* C21: no error ends a worker loop.  Whatever the claim, the handlers and
\* runJobWithRetry throw, the batch loop comes back again and again to a poll
\* with its pool drained and the slot loop to a poll with a free slot, a loop
\* in its catch comes back to polling, and every job waiting in the queue of a
\* batch is handed to a runner.
C21_LoopSurvivesErrors ==
    /\ []<>(tx[BatchWorker].pc = "idle" /\ Held(BatchWorker) = {})
    /\ []<>(tx[SlotWorker].pc = "idle"
               /\ freeSlots(SlotConcurrency, Cardinality(active[SlotWorker])) > 0)
    /\ \A w \in Workers : (tx[w].pc = "caught") ~> (tx[w].pc = "idle")
    /\ \A id \in 1..MaxFaultyJobs :
          (\E snap \in Queued(BatchWorker) : snap.id = id)
             ~> (\E snap \in active[BatchWorker] : snap.id = id)

\* A job of the batch waits in the queue while the job before it is left
\* RUNNING by a runJobWithRetry that threw.
C21_Witness ==
    /\ tx[BatchWorker].pc = "idle"
    /\ Len(jobs) = 3
    /\ jobs[1].status = "RUNNING"
    /\ {snap.id : snap \in active[BatchWorker]} = {2, 3}
    /\ active[SlotWorker] = {}

\* C22: every claimed job leaves RUNNING: the outcome of its handler is
\* written as DONE, RETRY or FAILED, also when the database rejects an update
\* of the runner.
C22_RunningJobSettles ==
    \A id \in 1..MaxFaultyJobs :
       (id \in JobIds /\ jobs[id].status = "RUNNING")
          ~> (id \in JobIds /\ jobs[id].status # "RUNNING")

\* The steps of the workflow in which runner w runs the handler of a job.
HandlerSteps(w) ==
    {x \in UNION {[snap : {snap}, f : Faults(jobs[snap.id].type)] : snap \in active[w]} :
        \E call \in HandlerCalls(jobs[x.snap.id], x.f) :
           runNextHandles(w, x.snap, x.f, call)}

\* The jobs of a type for an order in a table, and whether one is PENDING.
JobsOf(table, type, o) ==
    {id \in 1..Len(table) : table[id].type = type /\ table[id].order = o}

PendingJob(table, type, o) ==
    \E id \in JobsOf(table, type, o) : table[id].status = "PENDING"

\* Everything persisted but the row of the job being run is as it was.
NothingPersisted(id) ==
    /\ orders' = orders
    /\ Len(jobs') = Len(jobs)
    /\ \A other \in JobIds \ {id} : jobs'[other] = jobs[other]

\* C23: the sync handler run for an order that has a magento_order_id makes
\* no remote call, leaves the order row as it is and neither inserts nor
\* re-enables a job, each time it is run.
C23_SyncOfSyncedOrderIsNoOp ==
    [][\A x \in HandlerSteps(BatchWorker) :
          (jobs[x.snap.id].type = SYNC
             /\ orders[jobs[x.snap.id].order].magento_order_id # 0) =>
             (remote' = remote /\ NothingPersisted(x.snap.id))]_vars

\* The operator re-enabled the SYNC job of an order that is synced, and a
\* runner holds it.
C23_Witness ==
    /\ orders[1].magento_order_id # 0
    /\ remote.orders = 1
    /\ issued.requests > 0
    /\ \E snap \in active[BatchWorker] :
          jobs[snap.id].type = SYNC /\ jobs[snap.id].status = "RUNNING"

\* C24: the invoice handler for an order with invoiced_at, and the ship
\* handler for an order with shipped_at, create nothing remote, leave the
\* order row as it is and enqueue no job.
C24_InvoicedOrShippedIsNoOp ==
    [][\A x \in HandlerSteps(BatchWorker) :
          LET row == jobs[x.snap.id]
          IN (\/ row.type = INVOICE /\ orders[row.order].invoiced_at # NullTime
              \/ row.type = SHIP /\ orders[row.order].shipped_at # NullTime) =>
                (remote' = remote /\ NothingPersisted(x.snap.id))]_vars

\* The runners hold the re-enabled INVOICE and SHIP jobs of an order that is
\* invoiced and shipped.
C24_Witness ==
    /\ orders[1].invoiced_at # NullTime
    /\ orders[1].shipped_at # NullTime
    /\ remote.invoices = 1
    /\ remote.shipments = 1
    /\ {jobs[snap.id].type : snap \in active[BatchWorker]} = {INVOICE, SHIP}

\* C25: a SYNC job run for an order without remote reference, with nothing
\* failing, leaves the order with a remote reference and the job DONE, and an
\* INVOICE job of the order PENDING exactly if the rule has autoInvoice; and
\* no run of the sync handler adds or changes a SHIP job.
C25_SyncSchedulesInvoiceByRule ==
    [][\A x \in HandlerSteps(BatchWorker) :
          LET row == jobs[x.snap.id]
          IN row.type = SYNC =>
               /\ JobsOf(jobs', SHIP, row.order) = JobsOf(jobs, SHIP, row.order)
               /\ \A id \in JobsOf(jobs, SHIP, row.order) : jobs'[id] = jobs[id]
               /\ (orders[row.order].magento_order_id = 0
                     /\ x.f = [core |-> "none", side |-> {}]) =>
                      /\ orders'[row.order].magento_order_id # 0
                      /\ orders'[row.order].status = "SYNCED"
                      /\ jobs'[x.snap.id].status = "DONE"
                      /\ PendingJob(jobs', INVOICE, row.order) <=> rule.autoInvoice]_vars

\* The order is synced with its increment id, its SYNC job is DONE and its
\* INVOICE job is waiting, and there is no SHIP job.
C25_Witness ==
    /\ orders[1].magento_order_id # 0
    /\ orders[1].magento_increment_id # NULL
    /\ rule.autoInvoice
    /\ Len(jobs) = 2
    /\ jobs[1].type = SYNC /\ jobs[1].status = "DONE"
    /\ jobs[2].type = INVOICE /\ jobs[2].status = "PENDING"
    /\ JobsOf(jobs, SHIP, 1) = {}

\* C26: an invoice handler that created the invoice and wrote invoiced_at
\* leaves its job DONE, whether or not the steps after it fail; when they do
\* not fail a SHIP job of the order is PENDING exactly if the rule has
\* autoShip, and when they fail no job is enqueued.
C26_InvoiceSchedulesShipByRule ==
    [][\A x \in HandlerSteps(BatchWorker) :
          LET row == jobs[x.snap.id]
          IN (row.type = INVOICE
                /\ orders[row.order].invoiced_at = NullTime
                /\ orders'[row.order].invoiced_at # NullTime) =>
               /\ remote'.invoices = remote.invoices + 1
               /\ jobs'[x.snap.id].status = "DONE"
               /\ x.f.core = "none" =>
                     (PendingJob(jobs', SHIP, row.order) <=> rule.autoShip)
               /\ x.f.core = "enqueue" => Len(jobs') = Len(jobs)]_vars

\* The order is invoiced, its INVOICE job is DONE and its SHIP job is waiting.
C26_Witness ==
    /\ orders[1].invoiced_at # NullTime
    /\ orders[1].shipped_at = NullTime
    /\ rule.autoShip
    /\ Len(jobs) = 3
    /\ jobs[2].type = INVOICE /\ jobs[2].status = "DONE"
    /\ jobs[3].type = SHIP /\ jobs[3].status = "PENDING"

\* C27: when only calls beside the core steps fail, the handler still writes
\* its result to the order row, its job is DONE, and the successor the rule
\* asks for is PENDING.
C27_SideEffectFailuresAreNonFatal ==
    [][\A x \in HandlerSteps(BatchWorker) :
          LET row == jobs[x.snap.id]
              order == orders[row.order]
          IN (x.f.core = "none" /\ x.f.side # {}) =>
               /\ (row.type = SYNC /\ order.magento_order_id = 0) =>
                     /\ orders'[row.order].magento_order_id # 0
                     /\ jobs'[x.snap.id].status = "DONE"
                     /\ rule.autoInvoice => PendingJob(jobs', INVOICE, row.order)
               /\ (row.type = INVOICE /\ order.magento_order_id # 0
                      /\ order.invoiced_at = NullTime) =>
                     /\ orders'[row.order].invoiced_at # NullTime
                     /\ jobs'[x.snap.id].status = "DONE"
                     /\ rule.autoShip => PendingJob(jobs', SHIP, row.order)
               /\ (row.type = SHIP /\ order.magento_order_id # 0
                      /\ order.shipped_at = NullTime) =>
                     /\ orders'[row.order].shipped_at # NullTime
                     /\ jobs'[x.snap.id].status = "DONE"]_vars

\* The order was synced without its increment id, because getOrderById
\* failed, and yet its SYNC job is DONE and its INVOICE job is waiting.
C27_Witness ==
    /\ orders[1].status = "SYNCED"
    /\ orders[1].magento_increment_id = NULL
    /\ jobs[1].type = SYNC /\ jobs[1].status = "DONE"
    /\ PendingJob(jobs, INVOICE, 1)

\* C28: a FAILED job stays as it is, last_error included, until it is
\* re-enabled; and POST /jobs/:id/retry for a FAILED or DONE job of an order
\* type goes on to re-enable that very job, leaving it PENDING with attempts 0,
\* no last_error and no next_run_at.
C28_RetryReEnablesNamedJob ==
    /\ [][\A id \in JobIds :
            (jobs[id].status = "FAILED" /\ jobs'[id] # jobs[id]) =>
               jobs'[id] = ReEnabled(jobs[id])]_vars
    /\ [][\A c \in Clients : \A id \in JobIds :
            (jobs[id].status \in {"FAILED", "DONE"} /\ retryJob(c, id)) =>
               (op'[c].pc = "reset" /\ op'[c].target = id)]_vars
    /\ [][\A c \in Clients :
            (op[c].via # 0 /\ ensureReset(c)) =>
               (op[c].target = op[c].via
                  /\ jobs'[op[c].via] = ReEnabled(jobs[op[c].via]))]_vars

\* C29: last_error of a job goes from a message to null only in a step that
\* leaves the job DONE or re-enabled (PENDING with attempts 0).
C29_LastErrorClearedOnlyOnDoneOrReEnable ==
    [][\A id \in JobIds :
          (jobs[id].last_error # NULL /\ jobs'[id].last_error = NULL) =>
             \/ jobs'[id].status = "DONE"
             \/ jobs'[id].status = "PENDING" /\ jobs'[id].attempts = 0]_vars

C35_ImportJobOnlyByImport ==
    [][\A id \in JobIds :
          (jobs[id].type = IMPORT_JOB_TYPE
             /\ <<jobs'[id].status, jobs'[id].attempts, jobs'[id].last_error>>
                   # <<jobs[id].status, jobs[id].attempts, jobs[id].last_error>>) =>
             (imp.pc = "running" /\ imp.jobId = id /\ imp'.pc = "idle"
                /\ jobs'[id].status \in {"DONE", "FAILED"}
                /\ jobs'[id].attempts = jobs[id].attempts)]_vars

\* C37: an INVOICE job exists only for an order whose magento_order_id is
\* written and a SHIP job only for an order whose invoiced_at is written, so
\* neither ever fails with 'Order has no magento_order_id'.
C37_SuccessorAfterPrecondition ==
    \A id \in JobIds :
       /\ jobs[id].type = INVOICE => orders[jobs[id].order].magento_order_id # 0
       /\ jobs[id].type = SHIP =>
             /\ orders[jobs[id].order].magento_order_id # 0
             /\ orders[jobs[id].order].invoiced_at # NullTime
       /\ jobs[id].type \in {INVOICE, SHIP} => jobs[id].last_error # NoRemoteOrder.message

\* The INVOICE and SHIP jobs the workflow enqueued have both run and found
\* the order synced: the order is invoiced and shipped.
C37_Witness ==
    /\ Len(jobs) = 3
    /\ jobs[2].type = INVOICE /\ jobs[2].status = "DONE"
    /\ jobs[3].type = SHIP /\ jobs[3].status = "DONE"
    /\ orders[1].shipped_at # NullTime

\* C38: under rules that keep autoInvoice on, whenever the SYNC job of an
\* order is DONE there is an INVOICE job for the order.
C38_DoneSyncHasInvoiceJob ==
    \A id \in JobIds :
       (jobs[id].type = SYNC /\ jobs[id].status = "DONE") =>
          JobsOf(jobs, INVOICE, jobs[id].order) # {}

\* C39: the remote shop holds at most one order for the one order imported,
\* however often its SYNC job is run.
C39_AtMostOneRemoteOrder == remote.orders <= Cardinality(Orders)

\* The message a job the worker has no work for fails with.
MalformedMessage(row) ==
    IF row.order = 0 THEN ErrMissingOrderId.message
    ELSE IF row.type \notin OrderJobTypes THEN UnknownJobType(row.type).message
    ELSE OrderNotFound(row.order).message

Malformed(row) ==
    row.order = 0 \/ row.type \notin OrderJobTypes \/ row.order \notin Orders

\* C40: a claimed job without order_id, of an unknown type or for a missing
\* order is marked FAILED with its message by the run of its first attempt,
\* which makes no remote call and leaves the orders as they are; such a job is
\* never in RETRY.
C40_MalformedJobFailsAtOnce ==
    /\ [][\A x \in HandlerSteps(BatchWorker) :
             Malformed(jobs[x.snap.id]) =>
                /\ x.snap.attempts = 1
                /\ jobs'[x.snap.id].status = "FAILED"
                /\ jobs'[x.snap.id].last_error = MalformedMessage(jobs[x.snap.id])
                /\ remote' = remote
                /\ orders' = orders]_vars
    /\ [](\A id \in JobIds : Malformed(jobs[id]) => jobs[id].status # "RETRY")

\* The jobs of each kind, each FAILED with its own message after
\* one attempt, and the remote shop never called.
C40_Witness ==
    /\ \A id \in 1..Len(MalformedJobs) :
          /\ jobs[id].type = MalformedJobs[id].type
          /\ jobs[id].status = "FAILED"
          /\ jobs[id].attempts = 1
    /\ {jobs[id].last_error : id \in 1..Len(MalformedJobs)} =
          {ErrMissingOrderId.message, UnknownJobType(UNKNOWN_TYPE).message,
           OrderNotFound(MissingOrder).message}
    /\ remote = NoRemote

\* C36: the attempts of every job lie between 0 and its max_attempts, and a
\* job that can be claimed, PENDING or RETRY, has attempts left.
C36_AttemptsWithinBudget ==
    \A id \in JobIds :
       jobs[id].max_attempts >= 1 =>
          /\ 0 <= jobs[id].attempts
          /\ jobs[id].attempts <= jobs[id].max_attempts
          /\ jobs[id].status \in {"PENDING", "RETRY"} =>
                jobs[id].attempts < jobs[id].max_attempts

\* C32: activeJobsCount is the number of jobs the slot worker has dispatched
\* and not yet settled, and it stays between 0 and the concurrency limit.
C32_ActiveJobsCounted ==
    /\ worker.activeJobsCount = Cardinality(active[SlotWorker])
    /\ 0 <= worker.activeJobsCount
    /\ worker.activeJobsCount <= SlotConcurrency

\* One job settled by a failure while another is still in flight.
C32_Witness ==
    /\ worker.activeJobsCount = 1
    /\ Cardinality(active[SlotWorker]) = 1
    /\ \E id \in JobIds :
          /\ jobs[id].status \in {"RETRY", "FAILED", "RUNNING"}
          /\ jobs[id].attempts >= 1
          /\ \A snap \in Held(BatchWorker) \cup Held(SlotWorker) : snap.id # id

\* C33: once shutdown is signalled the loop starts no further claim, the
\* process closes only with no job in flight, and at the close no job claimed
\* by the slot worker is still RUNNING, a claim in flight at the signal
\* included.
C33_ShutdownDrains ==
    /\ [][worker.isShuttingDown =>
             ~(tx[SlotWorker].pc # "selected" /\ tx'[SlotWorker].pc = "selected")]_vars
    /\ [](worker.pc = "closed" => active[SlotWorker] = {})
    /\ [](worker.pc = "closed" =>
             \A id \in JobIds :
                jobs[id].status = "RUNNING" =>
                   \E snap \in Held(BatchWorker) : snap.id = id)

\* C34: a job the slot worker dispatched after shutdown was signalled, whose
\* handler did not start, is left PENDING or RETRY and never marked FAILED.
C34_RefusedJobStaysClaimable ==
    [][\A id \in JobIds :
          (id \in worker.refused /\ jobs'[id] # jobs[id]) =>
             jobs'[id].status \in {"PENDING", "RETRY"}]_vars

\* A RUNNING job that no process holds once the server process has exited.
Orphan(id) ==
    /\ worker.pc = "closed"
    /\ jobs[id].status = "RUNNING"
    /\ \A snap \in Held(BatchWorker) : snap.id # id

====
